---- MODULE Spec2Model ----
(***************************************************************************)
(* Model of the CCSDS Space Packet library: the bit codec (OBitStream,     *)
(* IBitStream), the primary header, the packet builder and the Space       *)
(* Packet transfer service (SpTransferService).                            *)
(*                                                                         *)
(* Eight specifications share the module:                                  *)
(*   Spec           the transfer service under traffic: connectUpperLayer, *)
(*                  transmit and receiveFromSubLayer calls, the listeners  *)
(*                  having been registered beforehand;                     *)
(*   SpecListeners  the listener table: registerListener and               *)
(*                  unregisterListener calls, then packets dispatched;     *)
(*   SpecReentrant  packets dispatched to listeners whose callback calls   *)
(*                  the service back, one turn of the loop of              *)
(*                  notifyListeners at a time;                             *)
(*   SpecBits       one OBitStream and one IBitStream over user buffers    *)
(*                  driven by attach / put / get / append calls;           *)
(*   SpecRoundTrip  a value put at a bit offset, then read back;           *)
(*   SpecBuilder    one SpBuilder or SpIdleBuilder from its construction   *)
(*                  to finalize;                                           *)
(*   SpecFields     a FieldCollection and a primary header: calls on the   *)
(*                  fields, serialize and deserialize;                     *)
(*   SpecFieldBits  one Field of 8 to 64 bits: setValue and setBit calls.  *)
(***************************************************************************)
EXTENDS Integers, Sequences, FiniteSets, TLC

VARIABLES
    \* ---- bit codec (SpecBits) ----
    bufs,       \* buffer id -> sequence of octets (IBuffer contents)
    ostream,    \* OBitStream: [cur_buffer, cur_bit_offset, bad_bit]
    istream,    \* IBitStream: [cur_buffer, cur_bit_offset, bad_bit]
    t_out,      \* the caller's variables passed by reference to IBitStream::get, per type
    bits_calls, \* history: the number of codec calls made
    bits_last,  \* history: the last codec call, its arguments and its pre-state
    \* ---- transfer service (Spec) ----
    listener_entries,   \* the slots 0 .. nb_listeners-1 of the entry array, in order
    nb_listeners,
    contexes,           \* apid -> ApidContext
    telemetry,
    lower,              \* ICommunicationLayer::lower of the service
    svc_last,           \* history: the last service call, its input, pre-state and events
    calls,              \* history: the number of transmit / receiveFromSubLayer calls
    wire,               \* history: per APID, the sequence count of the last packet sent
                        \* (last), whether a packet was accepted from the sub-layer
                        \* since (rx_since), and the count stamped on the packet
                        \* dropped by transmit since the last accepted one (dropped)
    \* ---- packet builder (SpecBuilder) ----
    packet,     \* the SpBuilder: [primary_hdr, sec_size, secondary_hdr, total_buffer,
                \* user_data]
    sp_last,    \* history: the last builder call, its arguments, the primary header
                \* before it, the number of data() puts and of header writes so far
    \* ---- fields (SpecFields) ----
    field_tuple,    \* FieldCollection::field_tuple: the Fields [Tbits, WidthBits, value]
    primary_hdr,    \* an SpPrimaryHeader that is serialized
    extracted_hdr,  \* an SpPrimaryHeader that is deserialized into
    f_last          \* history: the last call on them, its arguments and its pre-state

bits_vars == <<bufs, ostream, istream, t_out, bits_last, bits_calls>>
svc_vars  == <<listener_entries, nb_listeners, contexes, telemetry, lower, svc_last,
               calls, wire>>
sp_vars   == <<packet, sp_last>>
f_vars    == <<field_tuple, primary_hdr, extracted_hdr, f_last>>
vars      == <<bufs, ostream, istream, t_out, bits_last, bits_calls,
               listener_entries, nb_listeners, contexes, telemetry, lower, svc_last,
               calls, wire, packet, sp_last,
               field_tuple, primary_hdr, extracted_hdr, f_last>>

(***************************************************************************)
(* Integer helpers: C++ unsigned arithmetic on naturals.                   *)
(***************************************************************************)
CHAR_BIT == 8

Pow2(n) == 2 ^ n

Min(a, b) == IF a < b THEN a ELSE b

\* x >> n on a non-negative value
Shr(x, n) == x \div Pow2(n)

\* conversion of an integer (possibly negative) to an unsigned type of w bits
Trunc(x, w) == x % Pow2(w)

RECURSIVE BitOr(_, _)
\* a | b on non-negative values
BitOr(a, b) ==
    IF a = 0 THEN b
    ELSE IF b = 0 THEN a
    ELSE (IF (a % 2 = 1) \/ (b % 2 = 1) THEN 1 ELSE 0) + 2 * BitOr(a \div 2, b \div 2)

\* bitmask<R>(onecount) for onecount <= width of R
bitmask(onecount) == IF onecount = 0 THEN 0 ELSE Pow2(onecount) - 1

\* x & bitmask<R>(onecount) on a non-negative value
BitAndMask(x, onecount) == x % (bitmask(onecount) + 1)

(***************************************************************************)
(* Buffers and bit streams.                                                *)
(***************************************************************************)
NULL == "nullptr"

\* octets found in a buffer before anything is written to it
FillBytes == {0, 255}

\* IBuffer::getSize of the buffer a stream points to
BufSize(bs, id) == Len(bs[id])

\* the loop of put as it would be if it did not clear the octets it enters
RECURSIVE PutLoop_uncleared(_, _, _, _, _)
PutLoop_uncleared(buf, current_byte_i, cur_bit_offset, t, width) ==
    IF width = 0 THEN [buf |-> buf, cur_bit_offset |-> cur_bit_offset]
    ELSE LET bit_index   == CHAR_BIT - (cur_bit_offset % CHAR_BIT)
             nbBitsToAdd == Min(bit_index, width)
             value       == BitAndMask(Shr(t, width - nbBitsToAdd), nbBitsToAdd)
             shift       == bit_index - nbBitsToAdd
             written     == [buf EXCEPT ![current_byte_i + 1] =
                                Trunc(BitOr(@, value * Pow2(shift)), CHAR_BIT)]
         IN PutLoop_uncleared(written, current_byte_i + 1, cur_bit_offset + nbBitsToAdd,
                              t, width - nbBitsToAdd)

\* OBitStream::put, the while loop: current_byte_i is the index of *current_byte
RECURSIVE PutLoop(_, _, _, _, _)
PutLoop(buf, current_byte_i, cur_bit_offset, t, width) ==
    IF width = 0 THEN [buf |-> buf, cur_bit_offset |-> cur_bit_offset]
    ELSE LET bit_index   == CHAR_BIT - (cur_bit_offset % CHAR_BIT)
             cleared     == IF cur_bit_offset % CHAR_BIT = 0
                            THEN [buf EXCEPT ![current_byte_i + 1] = 0]
                            ELSE buf
             nbBitsToAdd == Min(bit_index, width)
             value       == BitAndMask(Shr(t, width - nbBitsToAdd), nbBitsToAdd)
             shift       == bit_index - nbBitsToAdd
             written     == [cleared EXCEPT ![current_byte_i + 1] =
                                Trunc(BitOr(@, value * Pow2(shift)), CHAR_BIT)]
         IN PutLoop(written, current_byte_i + 1, cur_bit_offset + nbBitsToAdd,
                    t, width - nbBitsToAdd)

\* the width test of put and get: width > sizeof(T)*CHAR_BIT ||
\* width > buffer.getSize()*CHAR_BIT - cur_bit_offset   (size_t arithmetic)
\* (a cursor beyond the end would make the unsigned difference wrap to a huge value,
\* which no width exceeds)
WidthRefused(Tbits, width, size, cur_bit_offset) ==
    \/ width > Tbits
    \/ /\ size * CHAR_BIT >= cur_bit_offset
       /\ width > size * CHAR_BIT - cur_bit_offset

\* put as it would be if a width beyond the remaining capacity were cut down to
\* the capacity instead of refused
Put_clamping(Tbits, t, width, s, bs) ==
    IF s.bad_bit THEN [s |-> s, bufs |-> bs]
    ELSE IF width = 0 THEN [s |-> s, bufs |-> bs]
    ELSE IF s.cur_buffer = NULL THEN [s |-> [s EXCEPT !.bad_bit = TRUE], bufs |-> bs]
    ELSE IF width > Tbits THEN [s |-> [s EXCEPT !.bad_bit = TRUE], bufs |-> bs]
    ELSE LET room == BufSize(bs, s.cur_buffer) * CHAR_BIT - s.cur_bit_offset
             r    == PutLoop(bs[s.cur_buffer], s.cur_bit_offset \div CHAR_BIT,
                             s.cur_bit_offset, Shr(t, width - Min(width, room)),
                             Min(width, room))
         IN [s    |-> [s EXCEPT !.cur_bit_offset = r.cur_bit_offset,
                                !.bad_bit = width > room],
             bufs |-> [bs EXCEPT ![s.cur_buffer] = r.buf]]

\* OBitStream::put<T>(t, width): the stream and the buffers after the call
Put(Tbits, t, width, s, bs) ==
    IF s.bad_bit THEN [s |-> s, bufs |-> bs]
    ELSE IF width = 0 THEN [s |-> s, bufs |-> bs]
    ELSE IF s.cur_buffer = NULL THEN [s |-> [s EXCEPT !.bad_bit = TRUE], bufs |-> bs]
    ELSE IF WidthRefused(Tbits, width, BufSize(bs, s.cur_buffer), s.cur_bit_offset)
         THEN [s |-> [s EXCEPT !.bad_bit = TRUE], bufs |-> bs]
    ELSE LET r == PutLoop(bs[s.cur_buffer], s.cur_bit_offset \div CHAR_BIT,
                          s.cur_bit_offset, t, width)
         IN [s    |-> [s EXCEPT !.cur_bit_offset = r.cur_bit_offset],
             bufs |-> [bs EXCEPT ![s.cur_buffer] = r.buf]]

\* operator<<(OBitStream& out, const OBitStream& other), the for loop from octet i:
\* out.put(*(other.cur_buffer->getStart() + i), CHAR_BIT)
RECURSIVE AppendOctets(_, _, _, _, _)
AppendOctets(i, nb_full_bytes, out, other, bs) ==
    IF ~(i < nb_full_bytes) THEN [s |-> out, bufs |-> bs]
    ELSE LET r == Put(8, bs[other.cur_buffer][i + 1], CHAR_BIT, out, bs)
         IN AppendOctets(i + 1, nb_full_bytes, r.s, other, r.bufs)

\* operator<<(OBitStream& out, const OBitStream& other): out and the buffers after
\* the call; same tells that out and other are one stream object
AppendStream(out, other, same, bs) ==
    IF same \/ out.cur_buffer = NULL \/ other.cur_buffer = NULL
    THEN [s |-> [out EXCEPT !.bad_bit = TRUE], bufs |-> bs]
    ELSE LET nb_full_bytes == other.cur_bit_offset \div CHAR_BIT
             nb_bits       == other.cur_bit_offset % CHAR_BIT
             r             == AppendOctets(0, nb_full_bytes, out, other, bs)
         IN IF nb_bits > 0
            THEN Put(8, r.bufs[other.cur_buffer][nb_full_bytes + 1], nb_bits, r.s, r.bufs)
            ELSE r

\* IBitStream::get, the while loop; t is of an unsigned type of Tbits bits
RECURSIVE GetLoop(_, _, _, _, _, _)
GetLoop(buf, current_byte_i, cur_bit_offset, Tbits, t, width) ==
    IF width = 0 THEN [t |-> t, cur_bit_offset |-> cur_bit_offset]
    ELSE LET bit_index   == CHAR_BIT - (cur_bit_offset % CHAR_BIT)
             nbBitsToGet == Min(width, bit_index)
             value       == BitAndMask(Shr(buf[current_byte_i + 1],
                                                bit_index - nbBitsToGet), nbBitsToGet)
             shifted     == Trunc(t * Pow2(nbBitsToGet), Tbits)
         IN GetLoop(buf, current_byte_i + 1, cur_bit_offset + nbBitsToGet,
                    Tbits, BitOr(shifted, value), width - nbBitsToGet)

\* get as it would be if it did not look at the bad bit first
Get_bad_ignored(Tbits, t, width, s, bs) ==
    IF width = 0 THEN [s |-> s, t |-> t]
    ELSE IF s.cur_buffer = NULL THEN [s |-> [s EXCEPT !.bad_bit = TRUE], t |-> t]
    ELSE IF WidthRefused(Tbits, width, BufSize(bs, s.cur_buffer), s.cur_bit_offset)
         THEN [s |-> [s EXCEPT !.bad_bit = TRUE], t |-> t]
    ELSE LET r == GetLoop(bs[s.cur_buffer], s.cur_bit_offset \div CHAR_BIT,
                          s.cur_bit_offset, Tbits, 0, width)
         IN [s |-> [s EXCEPT !.cur_bit_offset = r.cur_bit_offset], t |-> r.t]

\* IBitStream::get<T>(t, width): the stream and the caller's t after the call
Get(Tbits, t, width, s, bs) ==
    IF s.bad_bit THEN [s |-> s, t |-> t]
    ELSE IF width = 0 THEN [s |-> s, t |-> t]
    ELSE IF s.cur_buffer = NULL THEN [s |-> [s EXCEPT !.bad_bit = TRUE], t |-> t]
    ELSE IF WidthRefused(Tbits, width, BufSize(bs, s.cur_buffer), s.cur_bit_offset)
         THEN [s |-> [s EXCEPT !.bad_bit = TRUE], t |-> t]
    ELSE LET r == GetLoop(bs[s.cur_buffer], s.cur_bit_offset \div CHAR_BIT,
                          s.cur_bit_offset, Tbits, 0, width)
         IN [s |-> [s EXCEPT !.cur_bit_offset = r.cur_bit_offset], t |-> r.t]

(***************************************************************************)
(* put<T> and get<T> for the value types whose values exceed the integers  *)
(* of the model (uint32_t, uint64_t): a value of T is held as its binary   *)
(* digits, most significant first, Tbits of them.                          *)
(***************************************************************************)
\* the digits of a value below 2^n, n of them
Digits(value, n) ==
    [i \in 1..n |-> IF n - i > 30 THEN 0 ELSE (value \div Pow2(n - i)) % 2]

\* (t >> n) & bitmask<uint8_t>(onecount)
RECURSIVE WideShrMask(_, _, _)
WideShrMask(t, n, onecount) ==
    IF onecount = 0 THEN 0
    ELSE (IF n < Len(t) THEN t[Len(t) - n] ELSE 0) + 2 * WideShrMask(t, n + 1, onecount - 1)

\* t <<= n; t |= value, for a value below 2^n
WideShlOr(t, n, value) == SubSeq(t, n + 1, Len(t)) \o Digits(value, n)

\* OBitStream::put, the while loop, for a value held as digits
RECURSIVE PutLoopWide(_, _, _, _, _)
PutLoopWide(buf, current_byte_i, cur_bit_offset, t, width) ==
    IF width = 0 THEN [buf |-> buf, cur_bit_offset |-> cur_bit_offset]
    ELSE LET bit_index   == CHAR_BIT - (cur_bit_offset % CHAR_BIT)
             cleared     == IF cur_bit_offset % CHAR_BIT = 0
                            THEN [buf EXCEPT ![current_byte_i + 1] = 0]
                            ELSE buf
             nbBitsToAdd == Min(bit_index, width)
             value       == WideShrMask(t, width - nbBitsToAdd, nbBitsToAdd)
             shift       == bit_index - nbBitsToAdd
             written     == [cleared EXCEPT ![current_byte_i + 1] =
                                Trunc(BitOr(@, value * Pow2(shift)), CHAR_BIT)]
         IN PutLoopWide(written, current_byte_i + 1, cur_bit_offset + nbBitsToAdd,
                        t, width - nbBitsToAdd)

\* OBitStream::put<T>(t, width, isLittleEndian) for a value held as digits:
\* isLittleEndian is cast to void and not used
PutWide(Tbits, t, width, isLittleEndian, s, bs) ==
    IF s.bad_bit THEN [s |-> s, bufs |-> bs]
    ELSE IF width = 0 THEN [s |-> s, bufs |-> bs]
    ELSE IF s.cur_buffer = NULL THEN [s |-> [s EXCEPT !.bad_bit = TRUE], bufs |-> bs]
    ELSE IF WidthRefused(Tbits, width, BufSize(bs, s.cur_buffer), s.cur_bit_offset)
         THEN [s |-> [s EXCEPT !.bad_bit = TRUE], bufs |-> bs]
    ELSE LET r == PutLoopWide(bs[s.cur_buffer], s.cur_bit_offset \div CHAR_BIT,
                              s.cur_bit_offset, t, width)
         IN [s    |-> [s EXCEPT !.cur_bit_offset = r.cur_bit_offset],
             bufs |-> [bs EXCEPT ![s.cur_buffer] = r.buf]]

\* the loop of get as it would be if it took the low bits of the octet it reads
RECURSIVE GetLoopWide_low_bits(_, _, _, _, _)
GetLoopWide_low_bits(buf, current_byte_i, cur_bit_offset, t, width) ==
    IF width = 0 THEN [t |-> t, cur_bit_offset |-> cur_bit_offset]
    ELSE LET bit_index   == CHAR_BIT - (cur_bit_offset % CHAR_BIT)
             nbBitsToGet == Min(width, bit_index)
             value       == BitAndMask(buf[current_byte_i + 1], nbBitsToGet)
         IN GetLoopWide_low_bits(buf, current_byte_i + 1, cur_bit_offset + nbBitsToGet,
                                 WideShlOr(t, nbBitsToGet, value), width - nbBitsToGet)

\* IBitStream::get, the while loop, for a value held as digits
RECURSIVE GetLoopWide(_, _, _, _, _)
GetLoopWide(buf, current_byte_i, cur_bit_offset, t, width) ==
    IF width = 0 THEN [t |-> t, cur_bit_offset |-> cur_bit_offset]
    ELSE LET bit_index   == CHAR_BIT - (cur_bit_offset % CHAR_BIT)
             nbBitsToGet == Min(width, bit_index)
             value       == BitAndMask(Shr(buf[current_byte_i + 1],
                                                bit_index - nbBitsToGet), nbBitsToGet)
         IN GetLoopWide(buf, current_byte_i + 1, cur_bit_offset + nbBitsToGet,
                        WideShlOr(t, nbBitsToGet, value), width - nbBitsToGet)

\* IBitStream::get<T>(t, width, isLittleEndian) for a value held as digits:
\* isLittleEndian is cast to void and not used; t = 0 before the loop
GetWide(Tbits, t, width, isLittleEndian, s, bs) ==
    IF s.bad_bit THEN [s |-> s, t |-> t]
    ELSE IF width = 0 THEN [s |-> s, t |-> t]
    ELSE IF s.cur_buffer = NULL THEN [s |-> [s EXCEPT !.bad_bit = TRUE], t |-> t]
    ELSE IF WidthRefused(Tbits, width, BufSize(bs, s.cur_buffer), s.cur_bit_offset)
         THEN [s |-> [s EXCEPT !.bad_bit = TRUE], t |-> t]
    ELSE LET r == GetLoopWide(bs[s.cur_buffer], s.cur_bit_offset \div CHAR_BIT,
                              s.cur_bit_offset, Digits(0, Tbits), width)
         IN [s |-> [s EXCEPT !.cur_bit_offset = r.cur_bit_offset], t |-> r.t]

\* OBitStream() / IBitStream(): no buffer, bad bit set
DefaultStream == [cur_buffer |-> NULL, cur_bit_offset |-> 0, bad_bit |-> TRUE]

\* OBitStream(buf) / IBitStream(buf), and attach(buf)
StreamOn(id) == [cur_buffer |-> id, cur_bit_offset |-> 0, bad_bit |-> FALSE]

\* getSize(): the amount of octets touched, rounded up
StreamSize(s) == s.cur_bit_offset \div CHAR_BIT
                 + (IF s.cur_bit_offset % CHAR_BIT > 0 THEN 1 ELSE 0)

(***************************************************************************)
(* Field<T, WidthBits>: the stored value of an unsigned T of Tbits bits.   *)
(***************************************************************************)
\* Field::setValue(const T t): the conversion to T, then t & bitmask(WidthBits)
FieldSetValue(Tbits, WidthBits, t) == BitAndMask(Trunc(t, Tbits), WidthBits)

\* Field::getValue()
FieldGetValue(WidthBits, value) == BitAndMask(value, WidthBits)

\* operator++ as it would be if it stored the sum without masking it to the width
FieldIncrement_unmasked(Tbits, WidthBits, value) ==
    Trunc(FieldGetValue(WidthBits, value) + 1, Tbits)

\* Field::operator++ (prefix): setValue(getValue() + 1)
FieldIncrement(Tbits, WidthBits, value) ==
    FieldSetValue(Tbits, WidthBits, FieldGetValue(WidthBits, value) + 1)

\* operator-- as it would be if it stopped at 0
FieldDecrement_saturating(Tbits, WidthBits, value) ==
    IF FieldGetValue(WidthBits, value) = 0 THEN 0
    ELSE FieldSetValue(Tbits, WidthBits, FieldGetValue(WidthBits, value) - 1)

\* Field::operator-- (prefix): setValue(getValue() - 1)
FieldDecrement(Tbits, WidthBits, value) ==
    FieldSetValue(Tbits, WidthBits, FieldGetValue(WidthBits, value) - 1)

\* Field::getBit(n)
FieldGetBit(WidthBits, value, n) ==
    IF n < WidthBits THEN Shr(value, n) % 2 = 1 ELSE FALSE

\* Field::setBit(n, bit): value | (0x1 << n) or value & ~(0x1 << n), converted to T
FieldSetBit(Tbits, WidthBits, value, n, bit) ==
    IF n < WidthBits
    THEN Trunc(IF bit THEN BitOr(value, Pow2(n))
               ELSE value - (Shr(value, n) % 2) * Pow2(n), Tbits)
    ELSE value

\* Fields of every unsigned type: the value is held as the set of the numbers
\* of its bits that are 1 (bit 0 is the least significant).
\* the width of int, the type of the literal 0x1 that setBit shifts
INT_BITS == 32

\* the int m-th power of two converted to T: bit 31 is the sign of an int, and
\* the conversion to a wider T extends it
IntPowerToT(Tbits, m) ==
    IF m < INT_BITS - 1 THEN {m} \cap 0..(Tbits - 1) ELSE m..(Tbits - 1)

\* (0x1 << n) converted to T.  A shift of an int by its width or more is
\* undefined: the shift instruction takes the count modulo the width, or
\* shifts the bit out
ShiftedOne(Tbits, n) ==
    IF n < INT_BITS THEN {IntPowerToT(Tbits, n)}
    ELSE {IntPowerToT(Tbits, n % INT_BITS), {}}

\* Field::setValue(const T t) on a value given by its bits
BitsSetValue(Tbits, WidthBits, t) == t \cap 0..(Tbits - 1) \cap 0..(WidthBits - 1)

\* Field::getValue()
BitsGetValue(WidthBits, value) == value \cap 0..(WidthBits - 1)

\* Field::getBit(n)
BitsGetBit(WidthBits, value, n) == IF n < WidthBits THEN n \in value ELSE FALSE

\* Field::setBit(n, bit): the values it can leave
BitsSetBit(Tbits, WidthBits, value, n, bit) ==
    IF n < WidthBits
    THEN {(IF bit THEN value \cup mask ELSE value \ mask) \cap 0..(Tbits - 1) :
             mask \in ShiftedOne(Tbits, n)}
    ELSE {value}

\* Field::serialize: out.put(value, WidthBits)
FieldSerialize(Tbits, WidthBits, value, s, bs) == Put(Tbits, value, WidthBits, s, bs)

\* Field::deserialize: in.get(value, WidthBits)
FieldDeserialize(Tbits, WidthBits, value, s, bs) == Get(Tbits, value, WidthBits, s, bs)

\* FieldCollection<T, Rest...>::serialize: (o << args), ... over field_tuple, from
\* field number k; FieldCollection<>::serialize when the tuple is empty
RECURSIVE CollectionSerializeFrom(_, _, _, _)
CollectionSerializeFrom(k, tuple, s, bs) ==
    IF k > Len(tuple) THEN [s |-> s, bufs |-> bs]
    ELSE LET r == FieldSerialize(tuple[k].Tbits, tuple[k].WidthBits, tuple[k].value, s, bs)
         IN CollectionSerializeFrom(k + 1, tuple, r.s, r.bufs)

\* the collection as it would serialize if it wrote its last field first
CollectionSerialize_reversed(tuple, s, bs) ==
    CollectionSerializeFrom(1, [k \in 1..Len(tuple) |-> tuple[Len(tuple) + 1 - k]], s, bs)

CollectionSerialize(tuple, s, bs) == CollectionSerializeFrom(1, tuple, s, bs)

\* FieldCollection<T, Rest...>::deserialize: (i >> args), ... over field_tuple
RECURSIVE CollectionDeserializeFrom(_, _, _, _)
CollectionDeserializeFrom(k, tuple, s, bs) ==
    IF k > Len(tuple) THEN [s |-> s, tuple |-> tuple]
    ELSE LET r == FieldDeserialize(tuple[k].Tbits, tuple[k].WidthBits, tuple[k].value, s, bs)
         IN CollectionDeserializeFrom(k + 1, [tuple EXCEPT ![k].value = r.t], r.s, bs)

CollectionDeserialize(tuple, s, bs) == CollectionDeserializeFrom(1, tuple, s, bs)

\* FieldCollection::getWidth: the sum of the fields' widths, from field number k
RECURSIVE CollectionWidthFrom(_, _)
CollectionWidthFrom(k, tuple) ==
    IF k > Len(tuple) THEN 0 ELSE tuple[k].WidthBits + CollectionWidthFrom(k + 1, tuple)

CollectionGetWidth(tuple) == CollectionWidthFrom(1, tuple)

(***************************************************************************)
(* SpPrimaryHeader.                                                        *)
(***************************************************************************)
PACKET_VERSION_WIDTH        == 3
PACKET_TYPE_WIDTH           == 1
SECONDARY_HEADER_TYPE_WIDTH == 1
APID_WIDTH                  == 11
SEQUENCE_FLAGS_WIDTH        == 2
SEQUENCE_COUNT_WIDTH        == 14
PACKET_LENGTH_WIDTH         == 16
PRIMARY_HEADER_SIZE         == 6
IDLE_VALUE                  == 2047

\* the header's fields in serialization order: name, bits of the storage type, width
PrimaryFields ==
    << [name |-> "version",        Tbits |-> 8,  width |-> PACKET_VERSION_WIDTH],
       [name |-> "type",           Tbits |-> 8,  width |-> PACKET_TYPE_WIDTH],
       [name |-> "sec_hdr_flag",   Tbits |-> 8,  width |-> SECONDARY_HEADER_TYPE_WIDTH],
       [name |-> "apid",           Tbits |-> 16, width |-> APID_WIDTH],
       [name |-> "sequence_flags", Tbits |-> 8,  width |-> SEQUENCE_FLAGS_WIDTH],
       [name |-> "sequence_count", Tbits |-> 16, width |-> SEQUENCE_COUNT_WIDTH],
       [name |-> "length",         Tbits |-> 16, width |-> PACKET_LENGTH_WIDTH] >>

\* SpPrimaryHeader(): every field default-constructed to 0
DefaultPrimaryHeader ==
    [version |-> 0, type |-> 0, sec_hdr_flag |-> 0, apid |-> 0,
     sequence_flags |-> 0, sequence_count |-> 0, length |-> 0]

\* SpPrimaryHeader::serialize: o << version << ... << length, from field number k
RECURSIVE PrimarySerializeFrom(_, _, _, _)
PrimarySerializeFrom(k, hdr, s, bs) ==
    IF k > Len(PrimaryFields) THEN [s |-> s, bufs |-> bs]
    ELSE LET f == PrimaryFields[k]
             r == FieldSerialize(f.Tbits, f.width, hdr[f.name], s, bs)
         IN PrimarySerializeFrom(k + 1, hdr, r.s, r.bufs)

PrimarySerialize(hdr, s, bs) == PrimarySerializeFrom(1, hdr, s, bs)

\* SpPrimaryHeader::deserialize: i >> version >> ... >> length, from field number k
RECURSIVE PrimaryDeserializeFrom(_, _, _, _)
PrimaryDeserializeFrom(k, hdr, s, bs) ==
    IF k > Len(PrimaryFields) THEN [s |-> s, hdr |-> hdr]
    ELSE LET f == PrimaryFields[k]
             r == FieldDeserialize(f.Tbits, f.width, hdr[f.name], s, bs)
         IN PrimaryDeserializeFrom(k + 1, [hdr EXCEPT ![f.name] = r.t], r.s, bs)

\* deserialize as it would be if it read the length field and did not store it
PrimaryDeserialize_length_dropped(hdr, s, bs) ==
    [PrimaryDeserializeFrom(1, hdr, s, bs) EXCEPT !.hdr.length = hdr.length]

PrimaryDeserialize(hdr, s, bs) == PrimaryDeserializeFrom(1, hdr, s, bs)

\* PacketApid::isIdle
ApidIsIdle(apid) == FieldGetValue(APID_WIDTH, apid) = IDLE_VALUE

\* Flag::isSet: getBit<0>()
FlagIsSet(value) == Shr(value, 0) % 2 = 1

\* Flag::set: setBit<0>(true)
FlagSet(value) == BitOr(value, 1)

\* PacketLength::getLength: uint16_t(getValue() + 1)
GetLength(length) == Trunc(FieldGetValue(PACKET_LENGTH_WIDTH, length) + 1, 16)

\* PacketLength::setLength(uint16_t length): setValue(length - 1)
SetLength(n) == FieldSetValue(16, PACKET_LENGTH_WIDTH, Trunc(n, 16) - 1)

\* SpPrimaryHeader::isValid
PrimaryIsValid(hdr) == ~(ApidIsIdle(hdr.apid) /\ FlagIsSet(hdr.sec_hdr_flag))

(***************************************************************************)
(* ISpacepacket<SecHdrType> and SpBuilder<SecHdrType>.  The secondary      *)
(* header type is given by its size in octets: 0 is SpEmptySecondaryHeader,*)
(* 1 is SpSecondaryHeader<FieldEmpty, Field<uint8_t>>.  The builder is     *)
(* constructed with total_size >= 6 + sec_size.                            *)
(***************************************************************************)
SPACEPACKET_MIN_SIZE == 7
SPACEPACKET_MAX_SIZE == 65542

\* octets of the heap behind the builder's allocation that the model holds
HeapBehind == 6

\* SpBuilder(total_size): the buffer as allocated holds the octet fill.  The
\* size of user_data_buffer is total_size less both headers, computed in
\* size_t: for a total_size below the headers it wraps to nearly 2^64, and the
\* user data is then bounded by the memory, not by the allocation: beyond is
\* the heap behind total_buffer
SpBuilderNew(total_size, sec_size, fill) ==
    [primary_hdr   |-> DefaultPrimaryHeader,
     sec_size      |-> sec_size,
     secondary_hdr |-> 0,
     total_buffer  |-> [i \in 1..total_size |-> fill],
     beyond        |-> IF total_size < PRIMARY_HEADER_SIZE + sec_size
                       THEN [i \in 1..HeapBehind |-> fill] ELSE <<>>,
     user_data     |-> StreamOn("user_data_buffer")]

\* offset of user_data_buffer in total_buffer
UserDataOffset(sp) == PRIMARY_HEADER_SIZE + sp.sec_size

\* the size of user_data_buffer has wrapped
Wrapped(sp) == Len(sp.total_buffer) < UserDataOffset(sp)

\* user_data_buffer: the tail of total_buffer after both headers; when its size
\* has wrapped, the memory from total_buffer.getStart() + UserDataOffset on
UserDataBuffer(sp) ==
    IF ~Wrapped(sp)
    THEN SubSeq(sp.total_buffer, UserDataOffset(sp) + 1, Len(sp.total_buffer))
    ELSE SubSeq(sp.beyond, UserDataOffset(sp) - Len(sp.total_buffer) + 1, Len(sp.beyond))

\* the builder's memory with the octets of user_data_buffer as a put left them
WithUserData(sp, octets) ==
    IF ~Wrapped(sp)
    THEN [sp EXCEPT !.total_buffer = SubSeq(sp.total_buffer, 1, UserDataOffset(sp))
                                     \o octets]
    ELSE [sp EXCEPT !.beyond = SubSeq(sp.beyond, 1,
                                      UserDataOffset(sp) - Len(sp.total_buffer))
                               \o octets]

\* sp.data().put<T>(t, width)
BuilderPut(sp, Tbits, t, width) ==
    LET r == Put(Tbits, t, width, sp.user_data,
                 [id \in {"user_data_buffer"} |-> UserDataBuffer(sp)])
    IN [WithUserData(sp, r.bufs["user_data_buffer"]) EXCEPT !.user_data = r.s]

\* SpBuilder::getUserDataWidth
GetUserDataWidth(sp) == sp.user_data.cur_bit_offset

\* ISpacepacket::hasSecondaryHdr
HasSecondaryHdr(sp) == sp.sec_size > 0

\* ISpacepacket::getSize
PacketGetSize(sp) ==
    PRIMARY_HEADER_SIZE + sp.sec_size + (GetUserDataWidth(sp) \div CHAR_BIT)
    + (IF GetUserDataWidth(sp) % CHAR_BIT > 0 THEN 1 ELSE 0)

\* ISpacepacket::isValid
PacketIsValid(sp) ==
    IF ~PrimaryIsValid(sp.primary_hdr) THEN FALSE
    ELSE IF sp.sec_size = 0 /\ GetUserDataWidth(sp) = 0 THEN FALSE
    ELSE IF GetUserDataWidth(sp) % CHAR_BIT # 0 THEN FALSE
    ELSE IF PacketGetSize(sp) < SPACEPACKET_MIN_SIZE
            \/ PacketGetSize(sp) > SPACEPACKET_MAX_SIZE THEN FALSE
    ELSE IF \/ (~HasSecondaryHdr(sp) /\ FlagIsSet(sp.primary_hdr.sec_hdr_flag))
            \/ (HasSecondaryHdr(sp) /\ ~FlagIsSet(sp.primary_hdr.sec_hdr_flag)) THEN FALSE
    ELSE IF ApidIsIdle(sp.primary_hdr.apid) /\ sp.sec_size > 0 THEN FALSE
    ELSE IF GetLength(sp.primary_hdr.length)
            # GetUserDataWidth(sp) \div CHAR_BIT + sp.sec_size THEN FALSE
    ELSE TRUE

\* SpSecondaryHeader::serialize: o << time_code << ancillary_data
SecondarySerialize(sp, s, bs) ==
    IF sp.sec_size = 0 THEN [s |-> s, bufs |-> bs]
    ELSE FieldSerialize(8, 8, sp.secondary_hdr, s, bs)

\* SpBuilder::finalize
Finalize(sp) ==
    LET beginning == StreamOn("total_buffer")
        flagged   == IF HasSecondaryHdr(sp)
                     THEN [sp.primary_hdr EXCEPT !.sec_hdr_flag = FlagSet(@)]
                     ELSE sp.primary_hdr
        hdr       == [flagged EXCEPT
                        !.length = SetLength(sp.sec_size + StreamSize(sp.user_data))]
        r1        == PrimarySerialize(hdr, beginning,
                                      [id \in {"total_buffer"} |-> sp.total_buffer])
        r2        == SecondarySerialize(sp, r1.s, r1.bufs)
    IN [sp EXCEPT !.primary_hdr = hdr, !.total_buffer = r2.bufs["total_buffer"]]

\* SpBuilder::getBuffer
GetBuffer(sp) == sp.total_buffer

\* SpExtractor<SecHdrType>(buffer): stream >> primary_hdr >> secondary_hdr
SpExtractorNew(buffer, sec_size) ==
    LET bs == [id \in {"buffer"} |-> buffer]
        r1 == PrimaryDeserialize(DefaultPrimaryHeader, StreamOn("buffer"), bs)
        r2 == IF sec_size = 0 THEN [s |-> r1.s, t |-> 0]
              ELSE FieldDeserialize(8, 8, 0, r1.s, bs)
    IN [primary_hdr   |-> r1.hdr,
        sec_size      |-> sec_size,
        secondary_hdr |-> r2.t,
        buffer        |-> buffer,
        stream        |-> r2.s]

\* SpExtractor::getUserDataWidth: the buffer less both headers, in bits
ExtractorGetUserDataWidth(ex) ==
    (Len(ex.buffer) - PRIMARY_HEADER_SIZE - ex.sec_size) * CHAR_BIT

\* ISpacepacket::getSize of an extractor
ExtractorGetSize(ex) ==
    PRIMARY_HEADER_SIZE + ex.sec_size + (ExtractorGetUserDataWidth(ex) \div CHAR_BIT)
    + (IF ExtractorGetUserDataWidth(ex) % CHAR_BIT > 0 THEN 1 ELSE 0)

\* ISpacepacket::isValid of an extractor
ExtractorIsValid(ex) ==
    IF ~PrimaryIsValid(ex.primary_hdr) THEN FALSE
    ELSE IF ex.sec_size = 0 /\ ExtractorGetUserDataWidth(ex) = 0 THEN FALSE
    ELSE IF ExtractorGetUserDataWidth(ex) % CHAR_BIT # 0 THEN FALSE
    ELSE IF ExtractorGetSize(ex) < SPACEPACKET_MIN_SIZE
            \/ ExtractorGetSize(ex) > SPACEPACKET_MAX_SIZE THEN FALSE
    ELSE IF \/ (ex.sec_size = 0 /\ FlagIsSet(ex.primary_hdr.sec_hdr_flag))
            \/ (ex.sec_size > 0 /\ ~FlagIsSet(ex.primary_hdr.sec_hdr_flag)) THEN FALSE
    ELSE IF ApidIsIdle(ex.primary_hdr.apid) /\ ex.sec_size > 0 THEN FALSE
    ELSE IF GetLength(ex.primary_hdr.length)
            # ExtractorGetUserDataWidth(ex) \div CHAR_BIT + ex.sec_size THEN FALSE
    ELSE TRUE

\* for(i = 0; i < n; i++) put<T>(t, sizeof(T)*CHAR_BIT) on a stream that stands at
\* an octet boundary: every call that fits writes the octets of t, most
\* significant first, behind the previous ones; the first call that does not fit
\* raises bad_bit and the calls after it return at once
PutRun(Tbits, t, n, s, bs) ==
    IF s.bad_bit \/ n = 0 THEN [s |-> s, bufs |-> bs]
    ELSE IF s.cur_buffer = NULL THEN [s |-> [s EXCEPT !.bad_bit = TRUE], bufs |-> bs]
    ELSE LET sizeofT == Tbits \div CHAR_BIT
             first   == s.cur_bit_offset \div CHAR_BIT
             room    == BufSize(bs, s.cur_buffer) * CHAR_BIT - s.cur_bit_offset
             fitting == Min(n, room \div Tbits)
             buf     == bs[s.cur_buffer]
         IN [s    |-> [s EXCEPT !.cur_bit_offset = @ + fitting * Tbits,
                                !.bad_bit = n > fitting],
             bufs |-> [bs EXCEPT ![s.cur_buffer] =
                         [i \in 1..Len(buf) |->
                            IF i > first /\ i <= first + fitting * sizeofT
                            THEN Trunc(Shr(t, CHAR_BIT * (sizeofT - 1
                                                - ((i - first - 1) % sizeofT))), CHAR_BIT)
                            ELSE buf[i]]]]

\* for(i = 0; i < n; i++) sp.data().put<T>(t, sizeof(T)*CHAR_BIT)
BuilderPutRun(sp, Tbits, t, n) ==
    LET r == PutRun(Tbits, t, n, sp.user_data,
                    [id \in {"user_data_buffer"} |-> UserDataBuffer(sp)])
    IN [WithUserData(sp, r.bufs["user_data_buffer"]) EXCEPT !.user_data = r.s]

\* SpIdleBuilder<PatternType, IdleDataPattern>(total_size): PatternType has
\* PatternBits bits; the remainder is put as an int (the shift promotes the pattern)
SpIdleBuilderNew(total_size, PatternBits, IdleDataPattern, fill) ==
    LET base   == [SpBuilderNew(total_size, 0, fill) EXCEPT
                     !.primary_hdr.apid = FieldSetValue(16, APID_WIDTH, IDLE_VALUE)]
        sizeofP                == PatternBits \div CHAR_BIT
        packet_data_field_size == total_size - PRIMARY_HEADER_SIZE
        nb_full_pattern        == packet_data_field_size \div sizeofP
        nb_remainder_bytes     == Trunc(packet_data_field_size % sizeofP, 8)
        full   == BuilderPutRun(base, PatternBits, IdleDataPattern, nb_full_pattern)
    IN IF total_size > PRIMARY_HEADER_SIZE
       THEN IF nb_remainder_bytes > 0
            THEN BuilderPut(full, 32,
                            Shr(IdleDataPattern, (sizeofP - nb_remainder_bytes) * CHAR_BIT),
                            nb_remainder_bytes * CHAR_BIT)
            ELSE full
       ELSE base

(***************************************************************************)
(* SpTransferService.  The operations are functions of the service state   *)
(*   st = [listener_entries, nb_listeners, nb_listeners_max, contexes,     *)
(*         telemetry, lower, events]                                       *)
(* where events is the sequence of calls the service has made out of       *)
(* itself (listener callbacks, deliveries to the sub-layer) during the     *)
(* current operation, each with the counters as they stand at the call.    *)
(***************************************************************************)
\* listener_entries is the array's live prefix: slot i of the code is
\* listener_entries[i + 1]; the slots from nb_listeners on are never read.

\* the predicate as it would be if it compared the APIDs only
Matches_apid_only(matcher, other_apid) ==
    FieldGetValue(APID_WIDTH, matcher.apid) = FieldGetValue(APID_WIDTH, other_apid)

\* ListenerPredicate::operator()
Matches(matcher, other_apid) ==
    matcher.matchAll
    \/ FieldGetValue(APID_WIDTH, matcher.apid) = FieldGetValue(APID_WIDTH, other_apid)

\* listener->newSpacepacket(buffer)
NewSpacepacket(st, listener, buffer) ==
    [st EXCEPT !.events = Append(@, [kind      |-> "newSpacepacket",
                                     to        |-> listener,
                                     buffer    |-> buffer,
                                     contexes  |-> st.contexes,
                                     telemetry |-> st.telemetry])]

\* SpTransferService::notifyListeners, the for loop from index i
RECURSIVE NotifyListenersFrom(_, _, _, _)
NotifyListenersFrom(i, st, apid, buffer) ==
    IF ~(i < st.nb_listeners) THEN st
    ELSE LET e == st.listener_entries[i + 1]
         IN NotifyListenersFrom(i + 1,
                IF Matches(e.matcher, apid) THEN NewSpacepacket(st, e.listener, buffer)
                                            ELSE st,
                apid, buffer)

NotifyListeners(st, apid, buffer) == NotifyListenersFrom(0, st, apid, buffer)

\* ICommunicationLayer::pushToSubLayer: lower->receiveFromUpperLayer(bytes)
PushToSubLayer(st, buffer) ==
    IF st.lower # NULL
    THEN [st EXCEPT !.events = Append(@, [kind      |-> "receiveFromUpperLayer",
                                          to        |-> st.lower,
                                          buffer    |-> buffer,
                                          contexes  |-> st.contexes,
                                          telemetry |-> st.telemetry])]
    ELSE st

\* the update as it would be if a packet sent left the sequence count alone
UpdateContext_count_kept(st, apid_value, isSubLayerBuffer) ==
    IF isSubLayerBuffer
    THEN [st EXCEPT !.contexes[apid_value].rx_count = @ + 1,
                    !.contexes[apid_value].next_count =
                            FieldIncrement(16, SEQUENCE_COUNT_WIDTH, @)]
    ELSE [st EXCEPT !.contexes[apid_value].tx_count = @ + 1]

\* the update of the APID's context that ends transmitValidBuffer
UpdateContext(st, apid_value, isSubLayerBuffer) ==
    LET counted == IF isSubLayerBuffer
                   THEN [st EXCEPT !.contexes[apid_value].rx_count = @ + 1]
                   ELSE [st EXCEPT !.contexes[apid_value].tx_count = @ + 1]
    IN [counted EXCEPT !.contexes[apid_value].next_count =
                            FieldIncrement(16, SEQUENCE_COUNT_WIDTH, @)]

\* transmitValidBuffer as it would be if the sub-layer were served before the listeners
TransmitValidBuffer_push_first(st, apid_value, buffer, isSubLayerBuffer) ==
    LET pushed   == IF ~isSubLayerBuffer THEN PushToSubLayer(st, buffer) ELSE st
        notified == NotifyListeners(pushed, FieldSetValue(16, APID_WIDTH, apid_value), buffer)
    IN UpdateContext(notified, apid_value, isSubLayerBuffer)

\* SpTransferService::transmitValidBuffer
TransmitValidBuffer(st, apid_value, buffer, isSubLayerBuffer) ==
    LET notified == NotifyListeners(st, FieldSetValue(16, APID_WIDTH, apid_value), buffer)
        pushed   == IF ~isSubLayerBuffer THEN PushToSubLayer(notified, buffer)
                                         ELSE notified
    IN UpdateContext(pushed, apid_value, isSubLayerBuffer)

\* transmit as it would be if a packet failing validation still used up its count
TransmitBuilder_count_spent(st, sp) ==
    LET apid_value == FieldGetValue(APID_WIDTH, sp.primary_hdr.apid)
        stamped    == [sp EXCEPT !.primary_hdr.sequence_count =
                                     st.contexes[apid_value].next_count]
        final      == Finalize(stamped)
    IN IF PacketIsValid(final)
       THEN [st |-> [TransmitValidBuffer(st, apid_value, GetBuffer(final), FALSE)
                        EXCEPT !.telemetry.tx_count = @ + 1],
             sp |-> final]
       ELSE [st |-> [st EXCEPT !.telemetry.tx_error_count = @ + 1,
                               !.contexes[apid_value].next_count =
                                    FieldIncrement(16, SEQUENCE_COUNT_WIDTH, @)],
             sp |-> final]

\* transmit as it would be if a packet failing validation were dropped uncounted
TransmitBuilder_drop_uncounted(st, sp) ==
    LET apid_value == FieldGetValue(APID_WIDTH, sp.primary_hdr.apid)
        stamped    == [sp EXCEPT !.primary_hdr.sequence_count =
                                     st.contexes[apid_value].next_count]
        final      == Finalize(stamped)
    IN IF PacketIsValid(final)
       THEN [st |-> [TransmitValidBuffer(st, apid_value, GetBuffer(final), FALSE)
                        EXCEPT !.telemetry.tx_count = @ + 1],
             sp |-> final]
       ELSE [st |-> st, sp |-> final]

\* SpTransferService::transmit(SpBuilder&): the service and the packet after the call
TransmitBuilder(st, sp) ==
    LET apid_value == FieldGetValue(APID_WIDTH, sp.primary_hdr.apid)
        stamped    == [sp EXCEPT !.primary_hdr.sequence_count =
                                     st.contexes[apid_value].next_count]
        final      == Finalize(stamped)
    IN IF PacketIsValid(final)
       THEN [st |-> [TransmitValidBuffer(st, apid_value, GetBuffer(final), FALSE)
                        EXCEPT !.telemetry.tx_count = @ + 1],
             sp |-> final]
       ELSE [st |-> [st EXCEPT !.telemetry.tx_error_count = @ + 1],
             sp |-> final]

\* receiveFromSubLayer as it would be if it let a gap in the counts through
ReceiveFromSubLayer_gap_accepted(st, buffer) ==
    LET in         == StreamOn("buffer")
        pri_hdr    == PrimaryDeserialize(DefaultPrimaryHeader, in,
                                         [id \in {"buffer"} |-> buffer]).hdr
        apid_value == FieldGetValue(APID_WIDTH, pri_hdr.apid)
        accepted   == [TransmitValidBuffer(st, apid_value, buffer, TRUE)
                          EXCEPT !.telemetry.rx_count = @ + 1]
    IN IF ~ApidIsIdle(pri_hdr.apid)
       THEN LET next_count == st.contexes[apid_value].next_count
            IN IF FieldGetValue(SEQUENCE_COUNT_WIDTH, next_count)
                  <= FieldGetValue(SEQUENCE_COUNT_WIDTH, pri_hdr.sequence_count)
               THEN accepted
               ELSE [st EXCEPT !.telemetry.rx_error_count = @ + 1]
       ELSE accepted

\* SpTransferService::receiveFromSubLayer
ReceiveFromSubLayer(st, buffer) ==
    LET in         == StreamOn("buffer")
        pri_hdr    == PrimaryDeserialize(DefaultPrimaryHeader, in,
                                         [id \in {"buffer"} |-> buffer]).hdr
        apid_value == FieldGetValue(APID_WIDTH, pri_hdr.apid)
        accepted   == [TransmitValidBuffer(st, apid_value, buffer, TRUE)
                          EXCEPT !.telemetry.rx_count = @ + 1]
    IN IF ~ApidIsIdle(pri_hdr.apid)
       THEN LET next_count == st.contexes[apid_value].next_count
            IN IF FieldGetValue(SEQUENCE_COUNT_WIDTH, next_count)
                  = FieldGetValue(SEQUENCE_COUNT_WIDTH, pri_hdr.sequence_count)
               THEN accepted
               ELSE [st EXCEPT !.telemetry.rx_error_count = @ + 1]
       ELSE accepted

\* the write of a new entry that ends both registerListener overloads
AddEntry(st, listener, matcher) ==
    [st EXCEPT !.listener_entries =
                    Append(@, [listener |-> listener, matcher |-> matcher]),
               !.nb_listeners = @ + 1]

\* registerListener as it would be if the capacity test were off by one
RegisterListener_one_more(st, listener) ==
    IF listener = NULL \/ st.nb_listeners > st.nb_listeners_max THEN st
    ELSE AddEntry(st, listener, [apid |-> FieldSetValue(16, APID_WIDTH, 0),
                                 matchAll |-> TRUE])

\* SpTransferService::registerListener(SpListener*)
RegisterListener(st, listener) ==
    IF listener = NULL \/ st.nb_listeners >= st.nb_listeners_max THEN st
    ELSE AddEntry(st, listener, [apid |-> FieldSetValue(16, APID_WIDTH, 0),
                                 matchAll |-> TRUE])

\* SpTransferService::registerListener(SpListener*, uint16_t apid_value)
RegisterListenerApid(st, listener, apid_value) ==
    IF listener = NULL \/ st.nb_listeners >= st.nb_listeners_max THEN st
    ELSE AddEntry(st, listener, [apid |-> FieldSetValue(16, APID_WIDTH, apid_value),
                                 matchAll |-> FALSE])

\* SpTransferService::unregisterListener, the for loop from index i
RECURSIVE UnregisterListenerFrom(_, _, _)
UnregisterListenerFrom(i, st, listener) ==
    IF ~(i < st.nb_listeners) THEN st
    ELSE IF st.listener_entries[i + 1].listener = listener
         THEN LET moved == [st.listener_entries EXCEPT
                                ![i + 1] = st.listener_entries[(st.nb_listeners - 1) + 1]]
              IN [st EXCEPT !.listener_entries = SubSeq(moved, 1, st.nb_listeners - 1),
                            !.nb_listeners = @ - 1]
         ELSE UnregisterListenerFrom(i + 1, st, listener)

\* unregisterListener as it would be if it closed the gap by moving the later
\* entries down one slot
UnregisterListener_shifting(st, listener) ==
    LET found == {i \in 1..st.nb_listeners : st.listener_entries[i].listener = listener}
    IN IF found = {} THEN st
       ELSE LET i == CHOOSE k \in found : \A m \in found : k <= m
            IN [st EXCEPT !.listener_entries =
                              SubSeq(@, 1, i - 1) \o SubSeq(@, i + 1, st.nb_listeners),
                          !.nb_listeners = @ - 1]

\* SpTransferService::unregisterListener
UnregisterListener(st, listener) == UnregisterListenerFrom(0, st, listener)

\* ICommunicationLayer::connectUpperLayer called on a sub-layer with the service
\* as its upper layer: upper_layer.lower = this
ConnectedBy(st, sub_layer) == [st EXCEPT !.lower = sub_layer]

(***************************************************************************)
(* Listeners that call the service back from newSpacepacket.  A call made  *)
(* from a callback is bracketed in the events by a record of its entry and *)
(* a record of its return.                                                 *)
(***************************************************************************)
Mark(st, kind, buffer) ==
    [st EXCEPT !.events = Append(@, [kind      |-> kind,
                                     to        |-> NULL,
                                     buffer    |-> buffer,
                                     contexes  |-> st.contexes,
                                     telemetry |-> st.telemetry])]

\* the body of a listener's newSpacepacket: nothing, or one call of the service
React(st, reaction) ==
    CASE reaction.kind = "none" -> st
      [] reaction.kind = "unregisterListener" ->
            UnregisterListener(st, reaction.whom)
      [] reaction.kind = "registerListener" ->
            RegisterListener(st, reaction.whom)
      [] reaction.kind = "transmit" ->
            LET r == TransmitBuilder(Mark(st, "transmit", <<>>), reaction.sp)
            IN Mark(r.st, "returned", GetBuffer(r.sp))

(***************************************************************************)
(* Spec: the transfer service and its callers.                             *)
(***************************************************************************)
\* nb_listeners_max given to the constructor
MaxListeners == 3

\* transmit and receiveFromSubLayer calls made in one behaviour of Spec
MaxCalls == 2

\* transmit and receiveFromSubLayer calls made in one behaviour of SpecListeners
MaxDispatch == 1

\* the listeners of the application (SpListener*), and the sub-layer
Listeners == {"L1", "L2"}
SubLayer == "sub"

\* the APIDs in use
Apids == {256, 512, 2047}

\* apid_value arguments of registerListener
RegisterApids == {256}

\* successful transmits on APID 256 made before the behaviour starts: none, or
\* enough to bring its sequence count to its last value before the wrap
WarmUps == {0, Pow2(SEQUENCE_COUNT_WIDTH) - 1}

\* the shapes of the packets handed to transmit: size of the secondary header,
\* total_size, octets and further bits put into data(), sec_hdr_flag as the caller left it
Shapes ==
    { [sec_size |-> 0, total_size |-> 7, octets |-> 1, bits |-> 0, flag |-> 0],
      [sec_size |-> 0, total_size |-> 8, octets |-> 1, bits |-> 4, flag |-> 0],
      [sec_size |-> 1, total_size |-> 7, octets |-> 0, bits |-> 0, flag |-> 0],
      [sec_size |-> 0, total_size |-> 7, octets |-> 1, bits |-> 0, flag |-> 1],
      [sec_size |-> 0, total_size |-> 9, octets |-> 1, bits |-> 0, flag |-> 0] }

\* a builder of the given shape for the APID, as the producer hands it to transmit
RECURSIVE PutOctets(_, _)
PutOctets(sp, n) == IF n = 0 THEN sp ELSE PutOctets(BuilderPut(sp, 8, 171, 8), n - 1)

MkBuilder(shape, apid) ==
    LET fresh  == SpBuilderNew(shape.total_size, shape.sec_size, 255)
        filled == PutOctets(fresh, shape.octets)
        ragged == IF shape.bits > 0 THEN BuilderPut(filled, 8, 5, shape.bits) ELSE filled
    IN [ragged EXCEPT !.primary_hdr.apid = FieldSetValue(16, APID_WIDTH, apid),
                      !.primary_hdr.sec_hdr_flag = shape.flag,
                      !.primary_hdr.sequence_flags = 3,
                      !.primary_hdr.sequence_count = 9,
                      !.secondary_hdr = 25]

\* sequence counts of the packets a sub-layer delivers
RxCounts == {0, 1, 2, Pow2(SEQUENCE_COUNT_WIDTH) - 1}

\* a packet of 7 octets as a sub-layer delivers it
MkPacket(apid, count) ==
    LET hdr == [DefaultPrimaryHeader EXCEPT !.apid = apid, !.sequence_flags = 3,
                                            !.sequence_count = count]
    IN PrimarySerialize(hdr, StreamOn("packet"),
                        [id \in {"packet"} |-> <<0, 0, 0, 0, 0, 0, 171>>]).bufs["packet"]

\* the packets handed to transmit, and the packets a sub-layer delivers
TransmitInputs == {MkBuilder(shape, a) : shape \in Shapes, a \in Apids}

ReceiveInputs == {MkPacket(a, c) : a \in Apids, c \in RxCounts}

\* the packets dispatched to a listener table under test: per APID, a valid and an
\* invalid packet handed to transmit, an in-sequence and an out-of-sequence
\* packet delivered by a sub-layer
DispatchShapes == {shape \in Shapes : shape.total_size = SPACEPACKET_MIN_SIZE
                                      /\ shape.sec_size = 0}

DispatchTransmitInputs == {MkBuilder(shape, a) : shape \in DispatchShapes, a \in Apids}

DispatchReceiveInputs == {MkPacket(a, c) : a \in Apids, c \in {0, 1}}

\* the sequence count in the primary header of a packet's octets
CountOf(buffer) ==
    PrimaryDeserialize(DefaultPrimaryHeader, StreamOn("buffer"),
                       [id \in {"buffer"} |-> buffer]).hdr.sequence_count

\* the APID in the primary header of a packet's octets
ApidOf(buffer) ==
    PrimaryDeserialize(DefaultPrimaryHeader, StreamOn("buffer"),
                       [id \in {"buffer"} |-> buffer]).hdr.apid

ZeroContext == [rx_count |-> 0, tx_count |-> 0, next_count |-> 0]

\* the service state as a value, with no call made out of it yet
Service ==
    [listener_entries |-> listener_entries,
     nb_listeners     |-> nb_listeners,
     nb_listeners_max |-> MaxListeners,
     contexes         |-> contexes,
     telemetry        |-> telemetry,
     lower            |-> lower,
     events           |-> <<>>]

Adopt(st) ==
    /\ listener_entries' = st.listener_entries
    /\ nb_listeners' = st.nb_listeners
    /\ contexes' = st.contexes
    /\ telemetry' = st.telemetry
    /\ lower' = st.lower

NoPacket == "none"

Call(op, listener, apid, buffer, sp, st) ==
    [op |-> op, listener |-> listener, apid |-> apid, buffer |-> buffer, sp |-> sp,
     pre |-> Service, events |-> st.events, wire |-> wire]

\* listener tables left by the registrations made before traffic starts:
\* none; registerListener(L1) then registerListener(L2, 256)
AnyApid(l) == [listener |-> l, matcher |-> [apid |-> 0, matchAll |-> TRUE]]
OneApid(l, a) == [listener |-> l, matcher |-> [apid |-> a, matchAll |-> FALSE]]
WiredTables == { <<>>, <<AnyApid("L1"), OneApid("L2", 256)>> }

SvcInit ==
    /\ listener_entries \in WiredTables
    /\ nb_listeners = Len(listener_entries)
    /\ lower = NULL
    /\ \E k \in WarmUps :
          /\ contexes = [a \in Apids |->
                            IF a = 256
                            THEN [rx_count |-> 0, tx_count |-> k,
                                  next_count |-> FieldSetValue(16, SEQUENCE_COUNT_WIDTH, k)]
                            ELSE ZeroContext]
          /\ telemetry = [rx_count |-> 0, tx_count |-> k,
                          rx_error_count |-> 0, tx_error_count |-> 0]
          /\ calls = [transmit |-> k, receive |-> 0, made |-> 0]
          /\ wire = [a \in Apids |->
                        [last |-> IF a = 256 /\ k > 0 THEN k - 1 ELSE -1,
                         rx_since |-> FALSE, dropped |-> -1]]
    /\ svc_last = [op |-> "none"]

\* The application registers its listeners before it dispatches packets:
\* registration neither reads nor writes a counter, and a dispatch does not write
\* the listener table, so the two are explored one after the other.
Wiring == calls.made = 0

DoRegisterListener(l) ==
    /\ Wiring
    /\ LET st == RegisterListener(Service, l)
       IN /\ Adopt(st)
          /\ svc_last' = Call("registerListener", l, NULL, NoPacket, NoPacket, st)
    /\ UNCHANGED <<calls, wire>>

DoRegisterListenerApid(l, a) ==
    /\ Wiring
    /\ LET st == RegisterListenerApid(Service, l, a)
       IN /\ Adopt(st)
          /\ svc_last' = Call("registerListenerApid", l, a, NoPacket, NoPacket, st)
    /\ UNCHANGED <<calls, wire>>

DoUnregisterListener(l) ==
    /\ Wiring
    /\ LET st == UnregisterListener(Service, l)
       IN /\ Adopt(st)
          /\ svc_last' = Call("unregisterListener", l, NULL, NoPacket, NoPacket, st)
    /\ UNCHANGED <<calls, wire>>

DoConnect ==
    /\ lower = NULL
    /\ LET st == ConnectedBy(Service, SubLayer)
       IN /\ Adopt(st)
          /\ svc_last' = Call("connectUpperLayer", NULL, NULL, NoPacket, NoPacket, st)
    /\ UNCHANGED <<calls, wire>>

DoTransmit(sp) ==
    /\ LET r    == TransmitBuilder(Service, sp)
           apid == FieldGetValue(APID_WIDTH, sp.primary_hdr.apid)
           sent == r.st.telemetry.tx_count # telemetry.tx_count
       IN /\ Adopt(r.st)
          /\ svc_last' = Call("transmit", NULL, apid, GetBuffer(r.sp), r.sp, r.st)
          /\ wire' = IF sent
                     THEN [wire EXCEPT ![apid] = [last |-> CountOf(GetBuffer(r.sp)),
                                                  rx_since |-> FALSE, dropped |-> -1]]
                     ELSE [wire EXCEPT ![apid].dropped =
                              FieldGetValue(SEQUENCE_COUNT_WIDTH,
                                            r.sp.primary_hdr.sequence_count)]
    /\ calls' = [calls EXCEPT !.transmit = @ + 1, !.made = @ + 1]

DoReceive(buffer) ==
    /\ LET st       == ReceiveFromSubLayer(Service, buffer)
           apid     == FieldGetValue(APID_WIDTH, ApidOf(buffer))
           accepted == st.telemetry.rx_count # telemetry.rx_count
       IN /\ Adopt(st)
          /\ svc_last' = Call("receiveFromSubLayer", NULL, apid, buffer, NoPacket, st)
          /\ wire' = IF accepted
                     THEN [wire EXCEPT ![apid].rx_since = TRUE, ![apid].dropped = -1]
                     ELSE wire
    /\ calls' = [calls EXCEPT !.receive = @ + 1, !.made = @ + 1]

SvcNext ==
    \/ DoConnect
    \/ \E sp \in TransmitInputs : calls.made < MaxCalls /\ DoTransmit(sp)
    \/ \E buffer \in ReceiveInputs : calls.made < MaxCalls /\ DoReceive(buffer)

ListenersNext ==
    \/ \E l \in Listeners \cup {NULL} : DoRegisterListener(l)
    \/ \E l \in Listeners \cup {NULL}, a \in RegisterApids : DoRegisterListenerApid(l, a)
    \/ \E l \in Listeners \cup {NULL} : DoUnregisterListener(l)
    \/ \E sp \in DispatchTransmitInputs : calls.made < MaxDispatch /\ DoTransmit(sp)
    \/ \E buffer \in DispatchReceiveInputs : calls.made < MaxDispatch /\ DoReceive(buffer)

(***************************************************************************)
(* SpecReentrant: packets dispatched to listeners that call the service    *)
(* back from their callback.                                               *)
(***************************************************************************)
\* transmit and receiveFromSubLayer calls made by the application in one behaviour
MaxReentrantCalls == 1

\* the listener tables left by the registrations made before traffic starts:
\* registerListener(L1), registerListener(L2); then also registerListener(L1, 256)
ReentrantTables ==
    { <<AnyApid("L1"), AnyApid("L2")>>,
      <<AnyApid("L1"), AnyApid("L2"), OneApid("L1", 256)>> }

\* the APIDs of the packets a listener hands to transmit from its callback
NestedApids == {256, 512}

Quiet == [kind |-> "none", whom |-> NULL, apid |-> 0, flag |-> 0]

\* what a listener's callback does
Reactions ==
    {Quiet}
    \cup {[kind |-> k, whom |-> l, apid |-> 0, flag |-> 0] :
            k \in {"registerListener", "unregisterListener"}, l \in Listeners}
    \cup {[kind |-> "transmit", whom |-> NULL, apid |-> a, flag |-> f] :
            a \in NestedApids, f \in {0, 1}}

\* the callbacks of the listeners, with the packet each one hands to transmit
WithPackets(plan) ==
    [l \in Listeners |->
        [kind |-> plan[l].kind, whom |-> plan[l].whom,
         sp   |-> MkBuilder([sec_size |-> 0, total_size |-> SPACEPACKET_MIN_SIZE,
                             octets |-> 1, bits |-> 0, flag |-> plan[l].flag],
                            plan[l].apid)]]

\* the bodies of the listeners' callbacks: one listener at most calls the service
Plans == {plan \in [Listeners -> Reactions] : \E l \in Listeners : plan[l] = Quiet}

ReentrantInit ==
    /\ listener_entries \in ReentrantTables
    /\ nb_listeners = Len(listener_entries)
    /\ lower \in {NULL, SubLayer}
    /\ contexes = [a \in Apids |-> ZeroContext]
    /\ telemetry = [rx_count |-> 0, tx_count |-> 0,
                    rx_error_count |-> 0, tx_error_count |-> 0]
    /\ calls = [transmit |-> 0, receive |-> 0, made |-> 0]
    /\ wire = [a \in Apids |-> [last |-> -1, rx_since |-> FALSE, dropped |-> -1]]
    /\ svc_last = [op |-> "none", done |-> TRUE]

\* no dispatch is under way
NoDispatch == svc_last.done

\* the record of a call a listener may call back from: the position i of the
\* for loop of notifyListeners, and whether the call has returned
Dispatch(op, apid, buffer, plan, dispatched) ==
    [op |-> op, apid |-> apid, buffer |-> buffer, plan |-> plan, pre |-> Service,
     events |-> <<>>, i |-> 0, dispatched |-> dispatched, done |-> ~dispatched]

\* SpTransferService::transmit(SpBuilder&) up to the for loop of notifyListeners
BeginTransmit(sp, plan) ==
    LET apid_value == FieldGetValue(APID_WIDTH, sp.primary_hdr.apid)
        stamped    == [sp EXCEPT !.primary_hdr.sequence_count =
                                     contexes[apid_value].next_count]
        final      == Finalize(stamped)
    IN /\ svc_last' = Dispatch("transmit", apid_value, GetBuffer(final), plan,
                               PacketIsValid(final))
       /\ telemetry' = IF PacketIsValid(final) THEN telemetry
                       ELSE [telemetry EXCEPT !.tx_error_count = @ + 1]
       /\ calls' = [calls EXCEPT !.transmit = @ + 1, !.made = @ + 1]
       /\ UNCHANGED <<listener_entries, nb_listeners, contexes, lower, wire>>

\* SpTransferService::receiveFromSubLayer up to the for loop of notifyListeners
BeginReceive(buffer, plan) ==
    LET pri_hdr    == PrimaryDeserialize(DefaultPrimaryHeader, StreamOn("buffer"),
                                         [id \in {"buffer"} |-> buffer]).hdr
        apid_value == FieldGetValue(APID_WIDTH, pri_hdr.apid)
        accepted   == IF ~ApidIsIdle(pri_hdr.apid)
                      THEN FieldGetValue(SEQUENCE_COUNT_WIDTH,
                                         contexes[apid_value].next_count)
                           = FieldGetValue(SEQUENCE_COUNT_WIDTH, pri_hdr.sequence_count)
                      ELSE TRUE
    IN /\ svc_last' = Dispatch("receiveFromSubLayer", apid_value, buffer, plan, accepted)
       /\ telemetry' = IF accepted THEN telemetry
                       ELSE [telemetry EXCEPT !.rx_error_count = @ + 1]
       /\ calls' = [calls EXCEPT !.receive = @ + 1, !.made = @ + 1]
       /\ UNCHANGED <<listener_entries, nb_listeners, contexes, lower, wire>>

\* one turn of the for loop of notifyListeners: the entry at i is tested and,
\* when it matches, its listener's newSpacepacket runs to its end
NotifyTurn ==
    /\ ~NoDispatch
    /\ svc_last.i < nb_listeners
    /\ LET e       == listener_entries[svc_last.i + 1]
           st      == [Service EXCEPT !.events = svc_last.events]
           matches == Matches(e.matcher, FieldSetValue(16, APID_WIDTH, svc_last.apid))
           left    == IF matches
                      THEN React(NewSpacepacket(st, e.listener, svc_last.buffer),
                                 WithPackets(svc_last.plan)[e.listener])
                      ELSE st
       IN /\ Adopt(left)
          /\ svc_last' = [svc_last EXCEPT !.events = left.events, !.i = @ + 1]
          /\ calls' = [calls EXCEPT !.transmit =
                          @ + (IF matches /\ svc_last.plan[e.listener].kind = "transmit"
                               THEN 1 ELSE 0)]
    /\ UNCHANGED wire

\* the end of the for loop, the rest of transmitValidBuffer and the return to
\* transmit or receiveFromSubLayer
EndDispatch ==
    /\ ~NoDispatch
    /\ ~(svc_last.i < nb_listeners)
    /\ LET isSubLayerBuffer == svc_last.op = "receiveFromSubLayer"
           st      == [Service EXCEPT !.events = svc_last.events]
           pushed  == IF ~isSubLayerBuffer THEN PushToSubLayer(st, svc_last.buffer)
                                           ELSE st
           updated == UpdateContext(pushed, svc_last.apid, isSubLayerBuffer)
           left    == IF isSubLayerBuffer
                      THEN [updated EXCEPT !.telemetry.rx_count = @ + 1]
                      ELSE [updated EXCEPT !.telemetry.tx_count = @ + 1]
       IN /\ Adopt(left)
          /\ svc_last' = [svc_last EXCEPT !.events = left.events, !.done = TRUE]
    /\ UNCHANGED <<calls, wire>>

ReentrantNext ==
    \/ /\ NoDispatch
       /\ calls.made < MaxReentrantCalls
       /\ \E sp \in DispatchTransmitInputs, plan \in Plans : BeginTransmit(sp, plan)
    \/ /\ NoDispatch
       /\ calls.made < MaxReentrantCalls
       /\ \E buffer \in DispatchReceiveInputs, plan \in Plans : BeginReceive(buffer, plan)
    \/ NotifyTurn
    \/ EndDispatch

(***************************************************************************)
(* SpecBits: an OBitStream and an IBitStream over two user buffers.        *)
(***************************************************************************)
\* octets of buffer B1 (buffer B2 has one)
MaxBufBytes == 2

\* attach, put and get calls made in one behaviour
MaxBitCalls == 3

BufIds == {"B1", "B2"}

\* the unsigned value types used with put and get, by their width in bits
TypeBits == {8, 16}

\* values handed to put, per value type
PutValues(Tbits) == {42435 % Pow2(Tbits), Pow2(Tbits) - 1}

\* widths handed to put and get
Widths == {0, 3, 8, 9, 17}

NoCall == [op |-> "none"]

\* the octet of B2 as its writer left it: the three bits 101, or eight bits 1
WrittenOctets == {160, 255}

BitsInit ==
    /\ \E f \in FillBytes, left \in WrittenOctets :
          bufs = [id \in BufIds |->
                    IF id = "B1" THEN [i \in 1..MaxBufBytes |-> f]
                                 ELSE <<left>>]
    /\ \E s \in {DefaultStream, StreamOn("B1")} : ostream = s /\ istream = s
    /\ t_out = [T \in TypeBits |-> 0]
    /\ bits_last = NoCall
    /\ bits_calls = 0

\* the codec left alone: no buffer, both streams default-constructed
BitsIdle ==
    /\ bufs = [id \in BufIds |-> <<>>]
    /\ ostream = DefaultStream
    /\ istream = DefaultStream
    /\ t_out = [T \in TypeBits |-> 0]
    /\ bits_last = NoCall
    /\ bits_calls = 0

\* OBitStream::attach(buf)
OAttach(id) ==
    /\ bits_calls < MaxBitCalls
    /\ bits_calls' = bits_calls + 1
    /\ ostream' = StreamOn(id)
    /\ bits_last' = [op |-> "oattach", buf |-> id, pre_stream |-> ostream]
    /\ UNCHANGED <<bufs, istream, t_out>>

\* IBitStream::attach(buf)
IAttach(id) ==
    /\ bits_calls < MaxBitCalls
    /\ bits_calls' = bits_calls + 1
    /\ istream' = StreamOn(id)
    /\ bits_last' = [op |-> "iattach", buf |-> id, pre_stream |-> istream]
    /\ UNCHANGED <<bufs, ostream, t_out>>

\* a call of OBitStream::put<T>(t, width)
DoPut(Tbits, t, width) ==
    LET r == Put(Tbits, t, width, ostream, bufs)
    IN /\ bits_calls < MaxBitCalls
       /\ bits_calls' = bits_calls + 1
       /\ ostream' = r.s
       /\ bufs' = r.bufs
       /\ bits_last' = [op |-> "put", Tbits |-> Tbits, t |-> t, width |-> width,
                        pre_stream |-> ostream, pre_bufs |-> bufs, pre_t |-> t_out]
       /\ UNCHANGED <<istream, t_out>>

\* a call of IBitStream::get<T>(t, width) on the caller's variable of type T
DoGet(Tbits, width) ==
    LET r == Get(Tbits, t_out[Tbits], width, istream, bufs)
    IN /\ bits_calls < MaxBitCalls
       /\ bits_calls' = bits_calls + 1
       /\ istream' = r.s
       /\ t_out' = [t_out EXCEPT ![Tbits] = r.t]
       /\ bits_last' = [op |-> "get", Tbits |-> Tbits, t |-> t_out[Tbits], width |-> width,
                        pre_stream |-> istream, pre_bufs |-> bufs, pre_t |-> t_out]
       /\ UNCHANGED <<ostream, bufs>>

\* the streams appended to the OBitStream: one never attached, one that wrote
\* an octet to B2, one that wrote 3 bits to B2, one that wrote 11 bits to B1
OtherStreams ==
    { DefaultStream,
      [StreamOn("B2") EXCEPT !.cur_bit_offset = 8],
      [StreamOn("B2") EXCEPT !.cur_bit_offset = 3],
      [StreamOn("B1") EXCEPT !.cur_bit_offset = 11] }

\* a call of out << other, other being another stream
DoAppend(other) ==
    LET r == AppendStream(ostream, other, FALSE, bufs)
    IN /\ bits_calls < MaxBitCalls
       /\ bits_calls' = bits_calls + 1
       /\ ostream' = r.s
       /\ bufs' = r.bufs
       /\ bits_last' = [op |-> "append", other |-> other, same |-> FALSE,
                        pre_stream |-> ostream, pre_bufs |-> bufs, pre_t |-> t_out]
       /\ UNCHANGED <<istream, t_out>>

\* a call of out << out
DoAppendSelf ==
    LET r == AppendStream(ostream, ostream, TRUE, bufs)
    IN /\ bits_calls < MaxBitCalls
       /\ bits_calls' = bits_calls + 1
       /\ ostream' = r.s
       /\ bufs' = r.bufs
       /\ bits_last' = [op |-> "append", other |-> ostream, same |-> TRUE,
                        pre_stream |-> ostream, pre_bufs |-> bufs, pre_t |-> t_out]
       /\ UNCHANGED <<istream, t_out>>

BitsNext ==
    \/ \E id \in BufIds : OAttach(id)
    \/ \E id \in BufIds : IAttach(id)
    \/ \E T \in TypeBits, w \in Widths : \E t \in PutValues(T) : DoPut(T, t, w)
    \/ \E T \in TypeBits, w \in Widths : DoGet(T, w)
    \/ \E other \in OtherStreams : DoAppend(other)
    \/ DoAppendSelf

(***************************************************************************)
(* SpecRoundTrip: a value is put at a bit offset of a buffer by an         *)
(* OBitStream, then read from the same offset by an IBitStream.            *)
(***************************************************************************)
\* octets of the buffer
RtBufBytes == 9

\* bits written, and read, ahead of the value
MaxOffset == 15

\* the unsigned value types, by their width in bits
WideTypeBits == {8, 16, 32, 64}

RtWidths == {1, 3, 8, 9, 16, 17, 24, 32, 33, 63, 64}

\* n copies of a sequence of digits, one after the other
Repeat(unit, n) == [i \in 1..(n * Len(unit)) |-> unit[((i - 1) % Len(unit)) + 1]]

\* values of a type: 1010..., all ones, the first and the last bit only, and the
\* octets 0x12 0x34 0x12 0x34 ...
RtValues(Tbits) ==
    { Repeat(<<1, 0>>, Tbits \div 2),
      Repeat(<<1>>, Tbits),
      <<1>> \o Repeat(<<0>>, Tbits - 2) \o <<1>>,
      SubSeq(Repeat(Digits(4660, 16), (Tbits + 15) \div 16), 1, Tbits) }

RtInit ==
    \E Tbits \in WideTypeBits, little \in BOOLEAN, offset \in 0..MaxOffset, f \in FillBytes :
      \E t \in RtValues(Tbits), width \in {w \in RtWidths : w <= Tbits} :
        LET fresh == [id \in {"B1"} |-> Repeat(<<f>>, RtBufBytes)]
            ahead == PutWide(16, Digits(0, 16), offset, FALSE, StreamOn("B1"), fresh)
        IN /\ bufs = ahead.bufs
           /\ ostream = ahead.s
           /\ istream = GetWide(16, Digits(0, 16), offset, FALSE, StreamOn("B1"), ahead.bufs).s
           /\ t_out = [T \in {Tbits} |-> Digits(0, Tbits)]
           /\ bits_last = [op |-> "none", Tbits |-> Tbits, t |-> t, width |-> width,
                           isLittleEndian |-> little, offset |-> offset]
           /\ bits_calls = 0

\* out.put(t, width, isLittleEndian)
RtPut ==
    LET r == PutWide(bits_last.Tbits, bits_last.t, bits_last.width,
                     bits_last.isLittleEndian, ostream, bufs)
    IN /\ bits_calls = 0
       /\ bits_calls' = 1
       /\ ostream' = r.s
       /\ bufs' = r.bufs
       /\ bits_last' = [bits_last EXCEPT !.op = "put"]
       /\ UNCHANGED <<istream, t_out>>

\* in.get(t_out, width, isLittleEndian)
RtGet ==
    LET r == GetWide(bits_last.Tbits, t_out[bits_last.Tbits], bits_last.width,
                     bits_last.isLittleEndian, istream, bufs)
    IN /\ bits_calls = 1
       /\ bits_calls' = 2
       /\ istream' = r.s
       /\ t_out' = [t_out EXCEPT ![bits_last.Tbits] = r.t]
       /\ bits_last' = [bits_last EXCEPT !.op = "get"]
       /\ UNCHANGED <<ostream, bufs>>

RtNext == RtPut \/ RtGet

(***************************************************************************)
(* SpecBuilder: a producer constructs one builder, writes the primary      *)
(* header's public fields and the user data, then calls finalize.          *)
(***************************************************************************)
\* puts into data() per builder
MaxDataPuts == 2

\* total_size of the builders; the long ones are filled in one run
ShortSizes == {6, 7, 8, 10}

LongSizes == {SPACEPACKET_MAX_SIZE - 1, SPACEPACKET_MAX_SIZE, SPACEPACKET_MAX_SIZE + 1}

\* sizes of the secondary header types: SpEmptySecondaryHeader, and
\* SpSecondaryHeader<FieldEmpty, Field<uint8_t>>
SecSizes == {0, 1}

\* PatternType and IdleDataPattern of the idle builders
IdlePatterns == { [PatternBits |-> 8,  IdleDataPattern |-> 255],
                  [PatternBits |-> 16, IdleDataPattern |-> 43981],
                  [PatternBits |-> 32, IdleDataPattern |-> 305419896] }

\* the octets of the buffer as malloc returns it
MallocFills(total_size) == IF total_size \in LongSizes THEN {0} ELSE FillBytes

\* no builder constructed
BuilderIdle ==
    /\ packet = NULL
    /\ sp_last = [op |-> "none"]

Constructed == sp_last.op \notin {"none", "finalize"}

\* SpBuilder<SecHdrType>(total_size)
NewSpBuilder ==
    /\ sp_last.op = "none"
    /\ \E total_size \in ShortSizes \cup LongSizes, sec_size \in SecSizes :
         \E fill \in MallocFills(total_size) :
           /\ packet' = [SpBuilderNew(total_size, sec_size, fill)
                             EXCEPT !.secondary_hdr = 25]
           /\ sp_last' = [op |-> "SpBuilder", total_size |-> total_size,
                          pre_hdr |-> DefaultPrimaryHeader, puts |-> 0, sets |-> 0,
                          idle |-> FALSE, heap |-> packet'.beyond]

\* SpIdleBuilder<PatternType, IdleDataPattern>(total_size)
NewSpIdleBuilder ==
    /\ sp_last.op = "none"
    /\ \E total_size \in ShortSizes \cup LongSizes, P \in IdlePatterns :
         \E fill \in MallocFills(total_size) :
           /\ packet' = SpIdleBuilderNew(total_size, P.PatternBits, P.IdleDataPattern, fill)
           /\ sp_last' = [op |-> "SpIdleBuilder", total_size |-> total_size,
                          PatternBits |-> P.PatternBits,
                          IdleDataPattern |-> P.IdleDataPattern,
                          pre_hdr |-> DefaultPrimaryHeader, puts |-> 0, sets |-> 0,
                          idle |-> TRUE, heap |-> packet'.beyond]

\* packet.primary_hdr.apid.setValue(apid)
SetApid ==
    /\ Constructed
    /\ sp_last.op \in {"SpBuilder", "SpIdleBuilder"}
    /\ \E apid \in {256, IDLE_VALUE} :
         /\ packet' = [packet EXCEPT !.primary_hdr.apid =
                                        FieldSetValue(16, APID_WIDTH, apid)]
         /\ sp_last' = [sp_last EXCEPT !.op = "setValue", !.sets = @ + 1,
                                       !.pre_hdr = packet.primary_hdr]

\* packet.primary_hdr.sec_hdr_flag.set()
SetSecHdrFlag ==
    /\ Constructed
    /\ sp_last.op \in {"SpBuilder", "SpIdleBuilder", "setValue"}
    /\ packet' = [packet EXCEPT !.primary_hdr.sec_hdr_flag = FlagSet(@)]
    /\ sp_last' = [sp_last EXCEPT !.op = "set", !.sets = @ + 1,
                                  !.pre_hdr = packet.primary_hdr]

\* the octets left in user_data_buffer behind the cursor (when its size has
\* wrapped: in the part of it that the model holds)
OctetsLeft(sp) ==
    Len(UserDataBuffer(sp)) - StreamSize(sp.user_data)

\* for(i = 0; i < n; i++) packet.data() << uint8_t(171), at an octet boundary
DataPutOctets ==
    /\ Constructed
    /\ sp_last.puts < MaxDataPuts
    /\ packet.user_data.cur_bit_offset % CHAR_BIT = 0
    /\ \E n \in (IF Len(packet.total_buffer) \in LongSizes THEN {} ELSE {1, 2})
                 \cup (IF Wrapped(packet) THEN {}
                       ELSE {OctetsLeft(packet), OctetsLeft(packet) + 1}) :
         /\ n > 0
         /\ Wrapped(packet) => n <= OctetsLeft(packet)
         /\ packet' = BuilderPutRun(packet, 8, 171, n)
         /\ sp_last' = [sp_last EXCEPT !.op = "put", !.puts = @ + 1,
                                       !.pre_hdr = packet.primary_hdr]

\* packet.data().put<uint8_t>(5, 4)
DataPutBits ==
    /\ Constructed
    /\ sp_last.puts < MaxDataPuts
    /\ Len(packet.total_buffer) \in ShortSizes
    /\ Wrapped(packet) => OctetsLeft(packet) >= 1
    /\ packet' = BuilderPut(packet, 8, 5, 4)
    /\ sp_last' = [sp_last EXCEPT !.op = "put", !.puts = @ + 1,
                                  !.pre_hdr = packet.primary_hdr]

\* packet.finalize()
DoFinalize ==
    /\ Constructed
    /\ packet' = Finalize(packet)
    /\ sp_last' = [sp_last EXCEPT !.op = "finalize", !.pre_hdr = packet.primary_hdr]

BuilderNext ==
    \/ NewSpBuilder
    \/ NewSpIdleBuilder
    \/ SetApid
    \/ SetSecHdrFlag
    \/ DataPutOctets
    \/ DataPutBits
    \/ DoFinalize

(***************************************************************************)
(* SpecFields: a FieldCollection of three Fields (or of none) and a        *)
(* primary header over one buffer, with an OBitStream and an IBitStream    *)
(* standing at the same bit offset of it.                                  *)
(***************************************************************************)
\* octets of the buffer
FieldBufBytes == 8

\* calls made on the fields and the headers
MaxFieldCalls == 2

\* bit offsets the streams start from
FieldOffsets == 0..(CHAR_BIT - 1) \cup {CHAR_BIT * FieldBufBytes - 16}

\* Field<T, WidthBits>() : value 0
NewField(Tbits, WidthBits) == [Tbits |-> Tbits, WidthBits |-> WidthBits, value |-> 0]

\* the objects under test: a FieldCollection<> or FieldCollection<A, B, C>, and
\* a primary header with its fields set
Subjects ==
    { [tuple |-> <<>>,
       hdr   |-> [version |-> 0, type |-> 0, sec_hdr_flag |-> 0, apid |-> 2,
                  sequence_flags |-> 3, sequence_count |-> 0, length |-> 0]],
      [tuple |-> <<NewField(8, 6), NewField(8, 4), NewField(16, 11)>>,
       hdr   |-> [version |-> 5, type |-> 1, sec_hdr_flag |-> 0, apid |-> 1365,
                  sequence_flags |-> 2, sequence_count |-> 10922, length |-> 42330]],
      [tuple |-> <<NewField(16, 16), NewField(8, 1), NewField(8, 8)>>,
       hdr   |-> [version |-> 7, type |-> 1, sec_hdr_flag |-> 1, apid |-> 2047,
                  sequence_flags |-> 3, sequence_count |-> 16383, length |-> 65535]] }

\* no field constructed
FieldsIdle ==
    /\ field_tuple = <<>>
    /\ primary_hdr = DefaultPrimaryHeader
    /\ extracted_hdr = DefaultPrimaryHeader
    /\ f_last = [op |-> "none"]

FieldsInit ==
    \E subject \in Subjects, offset \in FieldOffsets, f \in FillBytes :
        LET fresh == [id \in {"B1"} |-> [i \in 1..FieldBufBytes |-> f]]
            ahead == PutRun(8, 0, offset \div CHAR_BIT, StreamOn("B1"), fresh)
            start == Put(8, 0, offset % CHAR_BIT, ahead.s, ahead.bufs)
        IN /\ bufs = start.bufs
           /\ ostream = start.s
           /\ istream = start.s
           /\ t_out = [T \in TypeBits |-> 0]
           /\ bits_last = NoCall
           /\ bits_calls = 0
           /\ field_tuple = subject.tuple
           /\ primary_hdr = subject.hdr
           /\ extracted_hdr = DefaultPrimaryHeader
           /\ f_last = [op |-> "none", calls |-> 0]

\* the record of a call: the objects and the streams before it
FieldCall(op, k, arg) ==
    [op |-> op, k |-> k, arg |-> arg, calls |-> f_last.calls + 1,
     pre_tuple |-> field_tuple, pre_ostream |-> ostream, pre_istream |-> istream,
     pre_bufs |-> bufs, before |-> f_last.op]

\* values handed to setValue for a field of the given type
SetValues(f) == {Pow2(f.WidthBits) - 1, Pow2(f.WidthBits) + 5, Pow2(f.Tbits) + 2}

\* bit numbers handed to setBit for a field of the given type
BitNumbers(f) == {0, f.WidthBits - 1, f.WidthBits}

\* getField<k>().setValue(t)
DoSetValue ==
    /\ f_last.calls < MaxFieldCalls
    /\ \E k \in DOMAIN field_tuple : \E t \in SetValues(field_tuple[k]) :
         /\ field_tuple' = [field_tuple EXCEPT ![k].value =
                               FieldSetValue(field_tuple[k].Tbits, field_tuple[k].WidthBits, t)]
         /\ f_last' = FieldCall("setValue", k, t)
    /\ UNCHANGED <<primary_hdr, extracted_hdr, bufs, ostream, istream>>

\* ++getField<k>()
DoIncrement ==
    /\ f_last.calls < MaxFieldCalls
    /\ \E k \in DOMAIN field_tuple :
         /\ field_tuple' = [field_tuple EXCEPT ![k].value =
                               FieldIncrement(field_tuple[k].Tbits, field_tuple[k].WidthBits, @)]
         /\ f_last' = FieldCall("increment", k, 0)
    /\ UNCHANGED <<primary_hdr, extracted_hdr, bufs, ostream, istream>>

\* --getField<k>()
DoDecrement ==
    /\ f_last.calls < MaxFieldCalls
    /\ \E k \in DOMAIN field_tuple :
         /\ field_tuple' = [field_tuple EXCEPT ![k].value =
                               FieldDecrement(field_tuple[k].Tbits, field_tuple[k].WidthBits, @)]
         /\ f_last' = FieldCall("decrement", k, 0)
    /\ UNCHANGED <<primary_hdr, extracted_hdr, bufs, ostream, istream>>

\* getField<k>().setBit(n, bit)
DoSetBit ==
    /\ f_last.calls < MaxFieldCalls
    /\ \E k \in DOMAIN field_tuple : \E n \in BitNumbers(field_tuple[k]), bit \in BOOLEAN :
         /\ field_tuple' = [field_tuple EXCEPT ![k].value =
                               FieldSetBit(field_tuple[k].Tbits, field_tuple[k].WidthBits, @, n, bit)]
         /\ f_last' = FieldCall("setBit", k, [n |-> n, bit |-> bit])
    /\ UNCHANGED <<primary_hdr, extracted_hdr, bufs, ostream, istream>>

\* out << collection
DoSerializeCollection ==
    LET r == CollectionSerialize(field_tuple, ostream, bufs)
    IN /\ f_last.calls < MaxFieldCalls
       /\ ostream' = r.s
       /\ bufs' = r.bufs
       /\ f_last' = FieldCall("serialize", 0, 0)
       /\ UNCHANGED <<field_tuple, primary_hdr, extracted_hdr, istream>>

\* in >> collection
DoDeserializeCollection ==
    LET r == CollectionDeserialize(field_tuple, istream, bufs)
    IN /\ f_last.calls < MaxFieldCalls
       /\ istream' = r.s
       /\ field_tuple' = r.tuple
       /\ f_last' = FieldCall("deserialize", 0, 0)
       /\ UNCHANGED <<primary_hdr, extracted_hdr, bufs, ostream>>

\* out << primary_hdr
DoSerializePrimary ==
    LET r == PrimarySerialize(primary_hdr, ostream, bufs)
    IN /\ f_last.calls < MaxFieldCalls
       /\ ostream' = r.s
       /\ bufs' = r.bufs
       /\ f_last' = FieldCall("serializePrimary", 0, 0)
       /\ UNCHANGED <<field_tuple, primary_hdr, extracted_hdr, istream>>

\* in >> extracted_hdr
DoDeserializePrimary ==
    LET r == PrimaryDeserialize(extracted_hdr, istream, bufs)
    IN /\ f_last.calls < MaxFieldCalls
       /\ istream' = r.s
       /\ extracted_hdr' = r.hdr
       /\ f_last' = FieldCall("deserializePrimary", 0, 0)
       /\ UNCHANGED <<field_tuple, primary_hdr, bufs, ostream>>

FieldsNext ==
    \/ DoSetValue
    \/ DoIncrement
    \/ DoDecrement
    \/ DoSetBit
    \/ DoSerializeCollection
    \/ DoDeserializeCollection
    \/ DoSerializePrimary
    \/ DoDeserializePrimary

(***************************************************************************)
(* SpecFieldBits: one Field<T, WidthBits>, its bits set and cleared.       *)
(***************************************************************************)
\* setValue and setBit calls made in one behaviour
MaxFieldBitCalls == 2

\* the fields under test: Field<uint8_t, 5>, Field<uint16_t>, Field<uint32_t>,
\* Field<uint64_t, 40>, Field<uint64_t>
BitFields ==
    { NewField(8, 5), NewField(16, 16), NewField(32, 32), NewField(64, 40),
      NewField(64, 64) }

FieldBitsInit ==
    /\ \E f \in BitFields : field_tuple = <<[f EXCEPT !.value = {}]>>
    /\ primary_hdr = DefaultPrimaryHeader
    /\ extracted_hdr = DefaultPrimaryHeader
    /\ f_last = [op |-> "none", calls |-> 0]

\* bit numbers handed to setBit
BitNumbersOf(f) ==
    {n \in {0, 4, 15, 30, 31, 32, 39, 63, 64} : n <= f.WidthBits}

\* values handed to setValue: every bit 1, every second bit 1
BitValuesOf(f) == {0..(f.Tbits - 1), {n \in 0..(f.Tbits - 1) : n % 2 = 1}}

\* field.setValue(t)
DoBitsSetValue ==
    /\ f_last.calls < MaxFieldBitCalls
    /\ \E t \in BitValuesOf(field_tuple[1]) :
         /\ field_tuple' = [field_tuple EXCEPT ![1].value =
                               BitsSetValue(field_tuple[1].Tbits,
                                            field_tuple[1].WidthBits, t)]
         /\ f_last' = FieldCall("setValue", 1, t)
    /\ UNCHANGED <<primary_hdr, extracted_hdr, bufs, ostream, istream>>

\* field.setBit(n, bit)
DoBitsSetBit ==
    /\ f_last.calls < MaxFieldBitCalls
    /\ \E n \in BitNumbersOf(field_tuple[1]), bit \in BOOLEAN :
         \E left \in BitsSetBit(field_tuple[1].Tbits, field_tuple[1].WidthBits,
                                field_tuple[1].value, n, bit) :
            /\ field_tuple' = [field_tuple EXCEPT ![1].value = left]
            /\ f_last' = FieldCall("setBit", 1, [n |-> n, bit |-> bit])
    /\ UNCHANGED <<primary_hdr, extracted_hdr, bufs, ostream, istream>>

FieldBitsNext ==
    \/ DoBitsSetValue
    \/ DoBitsSetBit

(***************************************************************************)
(* The specifications.                                                     *)
(***************************************************************************)
\* the service as constructed, with no call made yet
SvcIdle ==
    /\ listener_entries = <<>>
    /\ nb_listeners = 0
    /\ lower = NULL
    /\ contexes = [a \in Apids |-> ZeroContext]
    /\ telemetry = [rx_count |-> 0, tx_count |-> 0,
                    rx_error_count |-> 0, tx_error_count |-> 0]
    /\ calls = [transmit |-> 0, receive |-> 0, made |-> 0]
    /\ wire = [a \in Apids |-> [last |-> -1, rx_since |-> FALSE, dropped |-> -1]]
    /\ svc_last = [op |-> "none"]

Init == SvcInit /\ BitsIdle /\ BuilderIdle /\ FieldsIdle

Next == SvcNext /\ UNCHANGED <<bits_vars, sp_vars, f_vars>>

Spec == Init /\ [][Next]_vars

InitListeners == SvcIdle /\ BitsIdle /\ BuilderIdle /\ FieldsIdle

NextListeners == ListenersNext /\ UNCHANGED <<bits_vars, sp_vars, f_vars>>

SpecListeners == InitListeners /\ [][NextListeners]_vars

InitReentrant == ReentrantInit /\ BitsIdle /\ BuilderIdle /\ FieldsIdle

NextReentrant == ReentrantNext /\ UNCHANGED <<bits_vars, sp_vars, f_vars>>

SpecReentrant == InitReentrant /\ [][NextReentrant]_vars

InitFieldBits == FieldBitsInit /\ BitsIdle /\ SvcIdle /\ BuilderIdle

NextFieldBits ==
    FieldBitsNext /\ UNCHANGED <<svc_vars, sp_vars, t_out, bits_last, bits_calls>>

SpecFieldBits == InitFieldBits /\ [][NextFieldBits]_vars

InitBits == BitsInit /\ SvcIdle /\ BuilderIdle /\ FieldsIdle

NextBits == BitsNext /\ UNCHANGED <<svc_vars, sp_vars, f_vars>>

SpecBits == InitBits /\ [][NextBits]_vars

InitRoundTrip == RtInit /\ SvcIdle /\ BuilderIdle /\ FieldsIdle

NextRoundTrip == RtNext /\ UNCHANGED <<svc_vars, sp_vars, f_vars>>

SpecRoundTrip == InitRoundTrip /\ [][NextRoundTrip]_vars

InitBuilder == BuilderIdle /\ BitsIdle /\ SvcIdle /\ FieldsIdle

NextBuilder == BuilderNext /\ UNCHANGED <<bits_vars, svc_vars, f_vars>>

SpecBuilder == InitBuilder /\ [][NextBuilder]_vars

InitFields == FieldsInit /\ SvcIdle /\ BuilderIdle

NextFields ==
    FieldsNext /\ UNCHANGED <<svc_vars, sp_vars, t_out, bits_last, bits_calls>>

SpecFields == InitFields /\ [][NextFields]_vars

(***************************************************************************)
(* Properties of the transfer service, stated on the last call made        *)
(* (svc_last): its input, the service before it (pre), the calls it made   *)
(* out of the service (events) and the service after it (the variables).   *)
(***************************************************************************)
\* the last call was a transmit whose packet passed / failed validation
Transmitted == svc_last.op = "transmit" /\ PacketIsValid(svc_last.sp)
Dropped     == svc_last.op = "transmit" /\ ~PacketIsValid(svc_last.sp)

\* the last call was a delivery by the sub-layer
Received == svc_last.op = "receiveFromSubLayer"

\* the sequence count on the octets of the last call's packet, and the count the
\* packet's APID stood at before the call
Stamp == CountOf(svc_last.buffer)
CountBefore == svc_last.pre.contexes[svc_last.apid].next_count

\* the delivery was of a non-idle packet in / out of sequence, or of an idle one
InSequence    == Received /\ svc_last.apid # IDLE_VALUE /\ Stamp = CountBefore
OutOfSequence == Received /\ svc_last.apid # IDLE_VALUE /\ Stamp # CountBefore
IdleReceived  == Received /\ svc_last.apid = IDLE_VALUE

SeqModulus == Pow2(SEQUENCE_COUNT_WIDTH)

\* the listeners of a table that are to be told of a packet of the APID, in table order
Subscribers(table, apid) ==
    LET chosen == SelectSeq(table, LAMBDA e : e.matcher.matchAll \/ e.matcher.apid = apid)
    IN [i \in 1..Len(chosen) |-> chosen[i].listener]

\* the listeners called back during the last call, in the order of the calls
Callbacks ==
    LET told == SelectSeq(svc_last.events, LAMBDA e : e.kind = "newSpacepacket")
    IN [i \in 1..Len(told) |-> told[i].to]

\* the last call left the listener table and the sub-layer link as they were
TableKept ==
    /\ listener_entries = svc_last.pre.listener_entries
    /\ nb_listeners = svc_last.pre.nb_listeners
    /\ lower = svc_last.pre.lower

C2_InvalidTransmit ==
    /\ Dropped =>
          /\ telemetry = [svc_last.pre.telemetry EXCEPT !.tx_error_count = @ + 1]
          /\ svc_last.events = <<>>
          /\ contexes = svc_last.pre.contexes
          /\ TableKept
    /\ (Transmitted /\ svc_last.wire[svc_last.apid].dropped # -1)
          => Stamp = svc_last.wire[svc_last.apid].dropped

\* a packet dropped by a service that has listeners and a sub-layer
C2_DroppedWithAudience ==
    /\ Dropped
    /\ svc_last.pre.lower # NULL
    /\ svc_last.pre.nb_listeners > 0
    /\ telemetry.tx_error_count = 1

\* C3: the delivery of a non-idle packet whose sequence count differs from the
\* APID's next_count adds one to rx_error_count and changes nothing else: no
\* listener is called, rx_count and the APID contexts stay as they were.
C3_OutOfSequence ==
    OutOfSequence =>
        /\ telemetry = [svc_last.pre.telemetry EXCEPT !.rx_error_count = @ + 1]
        /\ svc_last.events = <<>>
        /\ contexes = svc_last.pre.contexes
        /\ TableKept

\* counts 0 then 2 delivered on APID 0x100: rx_count 1, rx_error_count 1, next_count 1
C3_ZeroThenTwo ==
    /\ OutOfSequence
    /\ svc_last.apid = 256
    /\ Stamp = 2
    /\ telemetry.rx_count = 1
    /\ telemetry.rx_error_count = 1
    /\ contexes[256].next_count = 1

\* C4: the delivery of a non-idle packet whose sequence count equals the APID's
\* next_count calls the matching listeners, adds one to telemetry rx_count and to
\* the APID's rx_count, and advances the APID's next_count by one modulo 2^14;
\* rx_error_count (and everything else) stays as it was.
C4_InSequence ==
    InSequence =>
        /\ Callbacks = Subscribers(svc_last.pre.listener_entries, svc_last.apid)
        /\ telemetry = [svc_last.pre.telemetry EXCEPT !.rx_count = @ + 1]
        /\ contexes = [svc_last.pre.contexes EXCEPT
                          ![svc_last.apid].rx_count = @ + 1,
                          ![svc_last.apid].next_count = (@ + 1) % SeqModulus]
        /\ TableKept

\* a packet with count 16383 accepted, two listeners told, the count back at 0
C4_AcceptedAtWrap ==
    /\ InSequence
    /\ CountBefore = SeqModulus - 1
    /\ Len(Callbacks) = 2
    /\ contexes[svc_last.apid].next_count = 0

\* C5: the delivery of an idle packet (APID 0x7FF) is accepted whatever its
\* sequence count: the matching listeners are called, telemetry rx_count and
\* contexes[0x7FF].rx_count grow by one, and contexes[0x7FF].next_count and
\* rx_error_count stay as they were.
C5_IdleReceive ==
    IdleReceived =>
        /\ Callbacks = Subscribers(svc_last.pre.listener_entries, svc_last.apid)
        /\ telemetry = [svc_last.pre.telemetry EXCEPT !.rx_count = @ + 1]
        /\ contexes[IDLE_VALUE].rx_count = svc_last.pre.contexes[IDLE_VALUE].rx_count + 1
        /\ contexes[IDLE_VALUE].next_count = svc_last.pre.contexes[IDLE_VALUE].next_count

\* C6: a successful transmit first calls the matching listeners, then hands the
\* packet's buffer exactly once to the connected sub-layer (if there is one), and
\* only then updates tx_count, the APID's tx_count and next_count: every call
\* made out of the service sees the counters as they stood before the transmit.
\* A packet delivered by the sub-layer is never handed back to a sub-layer.
C6_TransmitOrder ==
    /\ Transmitted =>
          LET ev == svc_last.events
              n  == Len(Subscribers(svc_last.pre.listener_entries, svc_last.apid))
          IN /\ Len(ev) = n + (IF svc_last.pre.lower # NULL THEN 1 ELSE 0)
             /\ \A i \in 1..n : ev[i].kind = "newSpacepacket"
             /\ svc_last.pre.lower # NULL =>
                   /\ ev[n + 1].kind = "receiveFromUpperLayer"
                   /\ ev[n + 1].to = svc_last.pre.lower
                   /\ ev[n + 1].buffer = svc_last.buffer
             /\ \A i \in 1..Len(ev) : /\ ev[i].contexes = svc_last.pre.contexes
                                      /\ ev[i].telemetry = svc_last.pre.telemetry
             /\ telemetry.tx_count = svc_last.pre.telemetry.tx_count + 1
             /\ contexes[svc_last.apid].tx_count
                   = svc_last.pre.contexes[svc_last.apid].tx_count + 1
             /\ contexes[svc_last.apid].next_count = (CountBefore + 1) % SeqModulus
    /\ Received =>
          \A i \in 1..Len(svc_last.events) :
              svc_last.events[i].kind # "receiveFromUpperLayer"

\* a packet sent by a service with a sub-layer: two listeners told, then the sub-layer
C6_ListenersThenSubLayer ==
    /\ Transmitted
    /\ svc_last.pre.lower # NULL
    /\ Len(svc_last.events) = 3
    /\ svc_last.events[3].kind = "receiveFromUpperLayer"

(***************************************************************************)
(* Properties of the listener table (SpecListeners).                       *)
(***************************************************************************)
\* the last call handed a packet to the listeners: a transmit that passed
\* validation, or a delivery that was accepted
Dispatched ==
    \/ Transmitted
    \/ Received /\ telemetry.rx_count # svc_last.pre.telemetry.rx_count

\* C7: for every dispatched packet, outbound or inbound, the listener callbacks
\* are the listener table in its current order filtered by matcher: every
\* any-APID entry and every entry registered for the packet's APID is called once
\* with the packet's buffer, entries for other APIDs are not called, and the
\* calls follow table order.
C7_CallbackOrder ==
    Dispatched =>
        LET told == SelectSeq(svc_last.events, LAMBDA e : e.kind = "newSpacepacket")
        IN /\ Callbacks = Subscribers(svc_last.pre.listener_entries, svc_last.apid)
           /\ \A i \in 1..Len(told) : told[i].buffer = svc_last.buffer

\* a packet dispatched to a table of three whose middle entry is for another
\* APID: the first and the third entry are called, L2 before L1
C7_SkipsMiddleEntry ==
    /\ Dispatched
    /\ Len(svc_last.pre.listener_entries) = 3
    /\ ~svc_last.pre.listener_entries[2].matcher.matchAll
    /\ svc_last.pre.listener_entries[2].matcher.apid # svc_last.apid
    /\ Callbacks = <<"L2", "L1">>

\* the last call was a registerListener, of either form
Registering == svc_last.op \in {"registerListener", "registerListenerApid"}

\* the entry a registerListener call is to add
NewEntry ==
    [listener |-> svc_last.listener,
     matcher  |-> IF svc_last.op = "registerListener"
                  THEN [apid |-> 0, matchAll |-> TRUE]
                  ELSE [apid |-> svc_last.apid, matchAll |-> FALSE]]

\* C8: registerListener (both forms) appends one entry at the end of the table
\* when the listener is not null and the count is below the maximum; with a null
\* listener or a full table it leaves the table as it was.  The count of
\* listeners never exceeds the maximum.
C8_Register ==
    /\ nb_listeners <= MaxListeners
    /\ Len(listener_entries) = nb_listeners
    /\ Registering =>
          IF svc_last.listener # NULL /\ svc_last.pre.nb_listeners < MaxListeners
          THEN /\ listener_entries = Append(svc_last.pre.listener_entries, NewEntry)
               /\ nb_listeners = svc_last.pre.nb_listeners + 1
          ELSE /\ listener_entries = svc_last.pre.listener_entries
               /\ nb_listeners = svc_last.pre.nb_listeners

\* a listener registered on a full table
C8_TableFull ==
    /\ Registering
    /\ svc_last.listener # NULL
    /\ svc_last.pre.nb_listeners = MaxListeners

\* the slots of a table that hold the listener
SlotsOf(table, l) == {i \in 1..Len(table) : table[i].listener = l}

\* C9: unregisterListener(l) removes the first entry whose listener is l by
\* copying the last entry into its slot and taking one off the count; every
\* other entry keeps its slot; when l is not in the table the table stays as it
\* was.
C9_Unregister ==
    svc_last.op = "unregisterListener" =>
        LET old   == svc_last.pre.listener_entries
            found == SlotsOf(old, svc_last.listener)
        IN IF found = {}
           THEN /\ listener_entries = old
                /\ nb_listeners = svc_last.pre.nb_listeners
           ELSE LET first == CHOOSE i \in found : \A j \in found : i <= j
                IN /\ nb_listeners = svc_last.pre.nb_listeners - 1
                   /\ Len(listener_entries) = Len(old) - 1
                   /\ \A j \in 1..Len(listener_entries) :
                         listener_entries[j] = IF j = first THEN old[Len(old)]
                                                            ELSE old[j]

\* a listener held by the first and the last of three entries is unregistered:
\* the last entry moves into the first slot
C9_FirstOfTwoRemoved ==
    /\ svc_last.op = "unregisterListener"
    /\ Len(svc_last.pre.listener_entries) = 3
    /\ SlotsOf(svc_last.pre.listener_entries, svc_last.listener) = {1, 3}
    /\ svc_last.pre.listener_entries[1] # svc_last.pre.listener_entries[3]
    /\ Len(listener_entries) = 2
    /\ listener_entries[1] = svc_last.pre.listener_entries[3]

(***************************************************************************)
(* Properties of the bit codec (SpecBits), stated on the last call made    *)
(* (bits_last).                                                            *)
(***************************************************************************)
\* the last call was a put or a get; the stream it was made on, as it is now
BitCall == bits_last.op \in {"put", "get"}
StreamAfter == IF bits_last.op = "put" THEN ostream ELSE istream

\* bits of the buffer a stream is attached to
CapacityBits(s, bs) == IF s.cur_buffer = NULL THEN 0 ELSE CHAR_BIT * Len(bs[s.cur_buffer])

\* the width of the last call exceeded the value type or the capacity left
Excess ==
    /\ BitCall
    /\ \/ bits_last.width > bits_last.Tbits
       \/ bits_last.width > CapacityBits(bits_last.pre_stream, bits_last.pre_bufs)
                            - bits_last.pre_stream.cur_bit_offset

\* C10: a put or a get whose width exceeds the bits of the value type or the
\* capacity left in the buffer sets the bad bit and changes neither the buffers,
\* nor the cursor, nor (for get) the caller's value; a width of 0 changes nothing
\* and does not set the bad bit; the cursor of either stream stays within
\* 0 .. 8 * size of its buffer.
C10_WidthRefused ==
    /\ Excess =>
          /\ StreamAfter.bad_bit
          /\ StreamAfter.cur_bit_offset = bits_last.pre_stream.cur_bit_offset
          /\ bufs = bits_last.pre_bufs
          /\ t_out = bits_last.pre_t
    /\ (BitCall /\ bits_last.width = 0) =>
          /\ StreamAfter = bits_last.pre_stream
          /\ bufs = bits_last.pre_bufs
          /\ t_out = bits_last.pre_t
    /\ \A s \in {ostream, istream} :
          /\ 0 <= s.cur_bit_offset
          /\ s.cur_bit_offset <= CapacityBits(s, bufs)

\* a put on a good stream, its cursor inside an octet, of a width the value type
\* holds and the buffer no longer does
C10_PutBeyondEnd ==
    /\ bits_last.op = "put"
    /\ Excess
    /\ ~bits_last.pre_stream.bad_bit
    /\ bits_last.width <= bits_last.Tbits
    /\ bits_last.pre_stream.cur_bit_offset % CHAR_BIT # 0
    /\ ostream.bad_bit

\* the stream the last codec call was made on, as it is now
StreamUsed == IF bits_last.op \in {"get", "iattach"} THEN istream ELSE ostream

\* C11: the bad bit is sticky: a put, a get or an append made on a stream whose
\* bad bit is set leaves the buffers, the cursor and the caller's values as they
\* were and the bad bit set; attach clears the bad bit and puts the cursor at 0.
C11_BadIsSticky ==
    /\ (bits_last.op \in {"put", "get", "append"} /\ bits_last.pre_stream.bad_bit) =>
          /\ StreamUsed = bits_last.pre_stream
          /\ bufs = bits_last.pre_bufs
          /\ t_out = bits_last.pre_t
    /\ bits_last.op \in {"oattach", "iattach"} =>
          /\ ~StreamUsed.bad_bit
          /\ StreamUsed.cur_bit_offset = 0
          /\ StreamUsed.cur_buffer = bits_last.buf

\* a get the buffer has room for, made on a stream that went bad after it had read
C11_GetOnBadStream ==
    /\ bits_last.op = "get"
    /\ bits_last.pre_stream.bad_bit
    /\ bits_last.pre_stream.cur_bit_offset > 0
    /\ bits_last.width > 0
    /\ bits_last.width <= bits_last.Tbits
    /\ bits_last.width <= CapacityBits(bits_last.pre_stream, bits_last.pre_bufs)
                          - bits_last.pre_stream.cur_bit_offset

(***************************************************************************)
(* Properties of put followed by get (SpecRoundTrip).                      *)
(***************************************************************************)
\* the bits offset .. offset + width - 1 of a buffer, first bit first
BitsAt(buf, offset, width) ==
    [i \in 1..width |->
        (buf[(offset + i - 1) \div CHAR_BIT + 1]
            \div Pow2(CHAR_BIT - 1 - ((offset + i - 1) % CHAR_BIT))) % 2]

\* t & mask(width), and its width low digits
Masked(t, width) == [i \in 1..Len(t) |-> IF i <= Len(t) - width THEN 0 ELSE t[i]]
LowDigits(t, width) == SubSeq(t, Len(t) - width + 1, Len(t))

\* the value was put and read back, and the buffer had room for it
RoundTripMade ==
    /\ bits_calls = 2
    /\ bits_last.op = "get"
    /\ bits_last.offset + bits_last.width <= CHAR_BIT * RtBufBytes

\* C12: for every unsigned value v and width W of 1 to 64 bits that the value
\* type holds, at every starting bit offset that leaves room, put(v, W, false)
\* followed by get(_, W, false) from the same offset yields v & mask(W), and
\* both cursors have advanced by exactly W bits.
C12_RoundTrip ==
    (RoundTripMade /\ ~bits_last.isLittleEndian) =>
        /\ t_out[bits_last.Tbits] = Masked(bits_last.t, bits_last.width)
        /\ ostream.cur_bit_offset = bits_last.offset + bits_last.width
        /\ istream.cur_bit_offset = bits_last.offset + bits_last.width
        /\ ~ostream.bad_bit
        /\ ~istream.bad_bit

\* 33 bits of a 64-bit value whose bits differ from their neighbours, put and read
\* back 5 bits into the buffer
C12_UnalignedWide ==
    /\ RoundTripMade
    /\ ~bits_last.isLittleEndian
    /\ bits_last.Tbits = 64
    /\ bits_last.width = 33
    /\ bits_last.offset = 5
    /\ bits_last.t = Repeat(<<1, 0>>, 32)
    /\ t_out[64] = Masked(bits_last.t, 33)

\* the octets of a sequence of digits in the opposite order, each octet as it was
ByteReversed(d) ==
    [i \in 1..Len(d) |->
        d[Len(d) - CHAR_BIT * ((i - 1) \div CHAR_BIT + 1) + ((i - 1) % CHAR_BIT) + 1]]

\* C13: put with isLittleEndian set and a width that is a multiple of 8 emits the
\* octets of the value least significant first, and get with isLittleEndian set
\* reads them back in that order, so that the value read is the value put.
C13_LittleEndian ==
    /\ (/\ bits_calls >= 1
        /\ bits_last.isLittleEndian
        /\ bits_last.width % CHAR_BIT = 0
        /\ bits_last.offset + bits_last.width <= CHAR_BIT * RtBufBytes)
          => BitsAt(bufs["B1"], bits_last.offset, bits_last.width)
                = ByteReversed(LowDigits(bits_last.t, bits_last.width))
    /\ (RoundTripMade /\ bits_last.isLittleEndian /\ bits_last.width % CHAR_BIT = 0)
          => t_out[bits_last.Tbits] = Masked(bits_last.t, bits_last.width)

(***************************************************************************)
(* Properties of the packet builder (SpecBuilder), stated on the builder   *)
(* after the last call made on it (sp_last).                               *)
(***************************************************************************)
Finalized == sp_last.op = "finalize"

\* octets of the packet data field: the secondary header and the user data
DataFieldOctets == packet.sec_size + StreamSize(packet.user_data)

\* the length field as it stands in octets 4 and 5 of the buffer
LengthOctets == packet.total_buffer[5] * Pow2(CHAR_BIT) + packet.total_buffer[6]

\* C14: after finalize the length field holds the number of octets of the packet
\* data field (secondary header and user data) less one, and getLength returns
\* that number of octets, for every packet data field of 1 to 65536 octets.
C14_LengthField ==
    (Finalized /\ DataFieldOctets \in 1..Pow2(PACKET_LENGTH_WIDTH))
        => /\ FieldGetValue(PACKET_LENGTH_WIDTH, packet.primary_hdr.length)
                = DataFieldOctets - 1
           /\ LengthOctets = DataFieldOctets - 1
           /\ GetLength(packet.primary_hdr.length) = DataFieldOctets

\* C15: after finalize, isValid is true of every builder of 7 to 65542 octets
\* whose user data is a whole number of octets, that has a secondary header or
\* user data, and that is not an idle packet with a secondary header; isValid is
\* false whenever the size is outside 7..65542, the user data is not a whole
\* number of octets, sec_hdr_flag disagrees with the presence of a secondary
\* header, or the stored length disagrees with the octets of the data field.
C15_IsValid ==
    Finalized =>
        LET size  == PacketGetSize(packet)
            width == GetUserDataWidth(packet)
            sizes == SPACEPACKET_MIN_SIZE..SPACEPACKET_MAX_SIZE
        IN /\ (/\ size \in sizes
               /\ width % CHAR_BIT = 0
               /\ (packet.sec_size > 0 \/ width > 0)
               /\ ~(ApidIsIdle(packet.primary_hdr.apid) /\ packet.sec_size > 0))
                 => PacketIsValid(packet)
           /\ (\/ size \notin sizes
               \/ width % CHAR_BIT # 0
               \/ FlagIsSet(packet.primary_hdr.sec_hdr_flag) # (packet.sec_size > 0)
               \/ FieldGetValue(PACKET_LENGTH_WIDTH, packet.primary_hdr.length) + 1
                    # packet.sec_size + width \div CHAR_BIT)
                 => ~PacketIsValid(packet)

\* octet i (from 1) of the idle data: the octets of the pattern, most significant
\* first, over and over
IdleOctet(PatternBits, IdleDataPattern, i) ==
    LET sizeofP == PatternBits \div CHAR_BIT
    IN (IdleDataPattern \div Pow2(CHAR_BIT * (sizeofP - 1 - ((i - 1) % sizeofP))))
           % Pow2(CHAR_BIT)

\* an idle builder on which nothing but the constructor and finalize was called
IdleUntouched == sp_last.op # "none" /\ sp_last.idle /\ sp_last.puts = 0 /\ sp_last.sets = 0

\* C19: an SpIdleBuilder constructed with total_size > 6 has the idle APID and its
\* total_size - 6 octets of user data hold the pattern, most significant octet
\* first, repeated and cut at the end; no APID context is changed; after finalize
\* sec_hdr_flag is 0, the length field is total_size - 7 and isValid is true.
C19_IdleBuilder ==
    (IdleUntouched /\ sp_last.total_size > PRIMARY_HEADER_SIZE)
        => /\ FieldGetValue(APID_WIDTH, packet.primary_hdr.apid) = IDLE_VALUE
           /\ GetUserDataWidth(packet) = CHAR_BIT * (sp_last.total_size - PRIMARY_HEADER_SIZE)
           /\ \A i \in 1..(sp_last.total_size - PRIMARY_HEADER_SIZE) :
                 UserDataBuffer(packet)[i]
                    = IdleOctet(sp_last.PatternBits, sp_last.IdleDataPattern, i)
           /\ contexes = [a \in Apids |-> ZeroContext]
           /\ Finalized
                => /\ ~FlagIsSet(packet.primary_hdr.sec_hdr_flag)
                   /\ FieldGetValue(PACKET_LENGTH_WIDTH, packet.primary_hdr.length)
                        = sp_last.total_size - PRIMARY_HEADER_SIZE - 1
                   /\ LengthOctets = sp_last.total_size - PRIMARY_HEADER_SIZE - 1
                   /\ PacketIsValid(packet)

\* sec_hdr_flag as it stands in octet 0 of the buffer
FlagBit == (packet.total_buffer[1] \div Pow2(CHAR_BIT - PACKET_VERSION_WIDTH
                - PACKET_TYPE_WIDTH - SECONDARY_HEADER_TYPE_WIDTH)) % 2

\* C20: after finalize, sec_hdr_flag is 1 if and only if the secondary header
\* type has a size above 0, whatever the flag was before finalize.
C20_FlagFollowsHeader ==
    Finalized
        => /\ FlagIsSet(packet.primary_hdr.sec_hdr_flag) <=> packet.sec_size > 0
           /\ FlagBit = 1 <=> packet.sec_size > 0

(***************************************************************************)
(* Properties of the primary header's layout and of the fields             *)
(* (SpecFields), stated on the last call made (f_last).                    *)
(***************************************************************************)
\* the 48 bits of a primary header: each field's value on its width, most
\* significant bit first, in the order of the standard
HeaderBits(hdr) ==
    Digits(hdr.version, 3) \o Digits(hdr.type, 1) \o Digits(hdr.sec_hdr_flag, 1)
    \o Digits(hdr.apid, 11) \o Digits(hdr.sequence_flags, 2)
    \o Digits(hdr.sequence_count, 14) \o Digits(hdr.length, 16)

\* the stream is good and is followed by at least width bits of the buffer
RoomFor(s, width) ==
    ~s.bad_bit /\ s.cur_bit_offset + width <= CHAR_BIT * FieldBufBytes

\* C16: serializing a primary header on a good stream with room writes exactly 48
\* bits: version (3), type (1), sec_hdr_flag (1), apid (11), sequence_flags (2),
\* sequence_count (14), length (16), each most significant bit first; and
\* deserializing those 48 bits restores the seven values.  Version 0, type 0,
\* APID 2, flags 3, count 0, length 0 give the octets 00 02 C0 00 00 00.
C16_PrimaryLayout ==
    /\ (f_last.op = "serializePrimary" /\ RoomFor(f_last.pre_ostream, 48))
          => /\ ~ostream.bad_bit
             /\ ostream.cur_bit_offset = f_last.pre_ostream.cur_bit_offset + 48
             /\ BitsAt(bufs["B1"], f_last.pre_ostream.cur_bit_offset, 48)
                    = HeaderBits(primary_hdr)
             /\ (f_last.pre_ostream.cur_bit_offset = 0 /\ primary_hdr.apid = 2)
                    => SubSeq(bufs["B1"], 1, 6) = <<0, 2, 192, 0, 0, 0>>
    /\ (/\ f_last.op = "deserializePrimary"
        /\ RoomFor(f_last.pre_istream, 48)
        /\ BitsAt(bufs["B1"], f_last.pre_istream.cur_bit_offset, 48)
              = HeaderBits(primary_hdr))
          => /\ extracted_hdr = primary_hdr
             /\ ~istream.bad_bit
             /\ istream.cur_bit_offset = f_last.pre_istream.cur_bit_offset + 48

\* a header serialized at bit offset 3 was read back from there
C16_RestoredUnaligned ==
    /\ f_last.op = "deserializePrimary"
    /\ f_last.before = "serializePrimary"
    /\ f_last.pre_istream.cur_bit_offset = 3
    /\ ostream.cur_bit_offset = 51
    /\ primary_hdr.apid = 1365
    /\ extracted_hdr = primary_hdr

\* the three fields of the collection serialized one after the other
Individually(tuple, s, bs) ==
    LET a == FieldSerialize(tuple[1].Tbits, tuple[1].WidthBits, tuple[1].value, s, bs)
        b == FieldSerialize(tuple[2].Tbits, tuple[2].WidthBits, tuple[2].value,
                            a.s, a.bufs)
    IN FieldSerialize(tuple[3].Tbits, tuple[3].WidthBits, tuple[3].value, b.s, b.bufs)

\* C17: serializing a FieldCollection<A, B, C> from any bit offset leaves the
\* buffer and the cursor as serializing A, then B, then C from that offset does;
\* on a good stream with room the cursor advances by getWidth() = the sum of the
\* three widths; an empty collection writes nothing.
C17_CollectionIsSequence ==
    f_last.op = "serialize"
        => /\ Len(field_tuple) = 3
                => /\ [s |-> ostream, bufs |-> bufs]
                        = Individually(field_tuple, f_last.pre_ostream, f_last.pre_bufs)
                   /\ CollectionGetWidth(field_tuple)
                        = field_tuple[1].WidthBits + field_tuple[2].WidthBits
                          + field_tuple[3].WidthBits
                   /\ RoomFor(f_last.pre_ostream, CollectionGetWidth(field_tuple))
                        => /\ ~ostream.bad_bit
                           /\ ostream.cur_bit_offset
                                = f_last.pre_ostream.cur_bit_offset
                                  + CollectionGetWidth(field_tuple)
           /\ Len(field_tuple) = 0
                => /\ ostream = f_last.pre_ostream
                   /\ bufs = f_last.pre_bufs
                   /\ CollectionGetWidth(field_tuple) = 0

\* a collection of 6 + 4 + 11 bits, its first field set, was serialized from bit 3
C17_UnalignedCollection ==
    /\ f_last.op = "serialize"
    /\ f_last.before = "setValue"
    /\ Len(field_tuple) = 3
    /\ field_tuple[1].value = 5
    /\ f_last.pre_ostream.cur_bit_offset = 3
    /\ ostream.cur_bit_offset = 24
    /\ ~ostream.bad_bit

\* the field the last call was made on, before and after it
FieldBefore == f_last.pre_tuple[f_last.k]
FieldAfter  == field_tuple[f_last.k]

\* C18: the value of a Field<T, W>, as stored and as getValue returns it, is
\* below 2^W after every setValue, increment, decrement, setBit and deserialize;
\* setValue(t) stores t & mask(W); increment and decrement step modulo 2^W, so
\* that 2^W - 1 is followed by 0 and 0 is preceded by 2^W - 1.
C18_FieldInRange ==
    /\ \A k \in DOMAIN field_tuple :
          /\ field_tuple[k].value \in 0..(Pow2(field_tuple[k].WidthBits) - 1)
          /\ FieldGetValue(field_tuple[k].WidthBits, field_tuple[k].value)
                = field_tuple[k].value
    /\ f_last.op = "setValue"
          => FieldAfter.value
                = (f_last.arg % Pow2(FieldAfter.Tbits)) % Pow2(FieldAfter.WidthBits)
    /\ f_last.op = "increment"
          => FieldAfter.value = (FieldBefore.value + 1) % Pow2(FieldAfter.WidthBits)
    /\ f_last.op = "decrement"
          => FieldAfter.value = (FieldBefore.value - 1) % Pow2(FieldAfter.WidthBits)
    /\ (f_last.op = "setBit" /\ f_last.arg.n < FieldAfter.WidthBits)
          => FieldGetBit(FieldAfter.WidthBits, FieldAfter.value, f_last.arg.n)
                = f_last.arg.bit

\* an 11-bit field on a uint16_t was decremented at 0
C18_DecrementWraps ==
    /\ f_last.op = "decrement"
    /\ FieldAfter.Tbits = 16
    /\ FieldAfter.WidthBits = 11
    /\ FieldBefore.value = 0
    /\ FieldAfter.value = 2047

(***************************************************************************)
(* Further properties of the bit codec (SpecBits).                         *)
(***************************************************************************)
\* the last call appended another, attached stream to a good stream with room
AppendMade ==
    /\ bits_last.op = "append"
    /\ ~bits_last.same
    /\ ~bits_last.pre_stream.bad_bit
    /\ bits_last.pre_stream.cur_buffer # NULL
    /\ bits_last.other.cur_buffer # NULL
    /\ bits_last.pre_stream.cur_bit_offset + bits_last.other.cur_bit_offset
          <= CHAR_BIT * Len(bits_last.pre_bufs[bits_last.pre_stream.cur_buffer])

\* C21: out << other adds exactly the bits other has written, equal bit for bit
\* to the first of other's buffer (the high-order bits of its last octet when
\* their number is not a multiple of 8), at any alignment of out; out << out
\* raises bad and writes nothing.
C21_AppendCopiesBits ==
    /\ AppendMade
          => /\ ~ostream.bad_bit
             /\ ostream.cur_bit_offset
                  = bits_last.pre_stream.cur_bit_offset + bits_last.other.cur_bit_offset
             /\ BitsAt(bufs[ostream.cur_buffer], bits_last.pre_stream.cur_bit_offset,
                       bits_last.other.cur_bit_offset)
                  = BitsAt(bits_last.pre_bufs[bits_last.other.cur_buffer], 0,
                           bits_last.other.cur_bit_offset)
    /\ (bits_last.op = "append" /\ bits_last.same)
          => /\ ostream.bad_bit
             /\ ostream.cur_bit_offset = bits_last.pre_stream.cur_bit_offset
             /\ bufs = bits_last.pre_bufs

\* the last call was a put that the stream accepted
PutMade ==
    /\ bits_last.op = "put"
    /\ ~bits_last.pre_stream.bad_bit
    /\ bits_last.pre_stream.cur_buffer # NULL
    /\ bits_last.width > 0
    /\ bits_last.width <= bits_last.Tbits
    /\ bits_last.pre_stream.cur_bit_offset + bits_last.width
          <= CHAR_BIT * Len(bits_last.pre_bufs[bits_last.pre_stream.cur_buffer])

\* what a put of the low width bits of t at cursor c brings into octet j (from
\* 0): the bits of the value that fall into the octet, zero elsewhere
Brought(t, width, c, j) ==
    LET d == Digits(t % Pow2(width), width)
        RECURSIVE Sum(_)
        Sum(b) == IF b = CHAR_BIT THEN 0
                  ELSE (IF CHAR_BIT * j + b >= c /\ CHAR_BIT * j + b < c + width
                        THEN d[CHAR_BIT * j + b - c + 1] * Pow2(CHAR_BIT - 1 - b)
                        ELSE 0) + Sum(b + 1)
    IN Sum(0)

\* C22: an accepted put(v, W) at cursor c writes the low W bits of v, most
\* significant first, into the bit positions c .. c+W-1; it leaves the octets
\* before c and after the last written one as they were, stores into every
\* octet it enters at an octet boundary the written bits over zeros, and ORs the
\* written bits into the octet of c when c is not at a boundary.
C22_PutWritesBits ==
    PutMade =>
        LET c     == bits_last.pre_stream.cur_bit_offset
            W     == bits_last.width
            old   == bits_last.pre_bufs[ostream.cur_buffer]
            new   == bufs[ostream.cur_buffer]
            first == c \div CHAR_BIT
            last  == (c + W - 1) \div CHAR_BIT
        IN /\ ostream.cur_bit_offset = c + W
           /\ ~ostream.bad_bit
           /\ BitsAt(new, c, W) = Digits(bits_last.t % Pow2(W), W)
           /\ BitsAt(new, 0, c) = BitsAt(old, 0, c)
           /\ \A j \in 0..(Len(new) - 1) :
                 new[j + 1] =
                    IF j < first \/ j > last THEN old[j + 1]
                    ELSE IF j = first /\ c % CHAR_BIT # 0
                         THEN BitOr(old[j + 1], Brought(bits_last.t, W, c, j))
                         ELSE Brought(bits_last.t, W, c, j)

\* nine bits were put at cursor 3 into a buffer whose second octet held FF
C22_PutAcrossOctets ==
    /\ PutMade
    /\ bits_last.pre_stream.cur_bit_offset = 3
    /\ bits_last.width = 9
    /\ bits_last.pre_bufs["B1"][2] = 255
    /\ ostream.cur_buffer = "B1"
    /\ bufs["B1"][2] # 255

(***************************************************************************)
(* Properties of a dispatch whose listeners call the service back          *)
(* (SpecReentrant), stated on the last call made by the application.       *)
(***************************************************************************)
\* the last call dispatched its packet to the listeners and has returned
DispatchedReacting ==
    /\ svc_last.op \in {"transmit", "receiveFromSubLayer"}
    /\ svc_last.dispatched
    /\ svc_last.done

\* event i was made by a call that a callback made
Nested(i) ==
    \E j \in 1..(i - 1) :
        /\ svc_last.events[j].kind = "transmit"
        /\ \A k \in j..i : svc_last.events[k].kind # "returned"

\* the callbacks made for the packet of the last call
OuterCallbacks ==
    {i \in DOMAIN svc_last.events :
        svc_last.events[i].kind = "newSpacepacket" /\ ~Nested(i)}

\* the entries of listener l that matched the packet when the dispatch started
MatchingAtStart(l) ==
    {k \in 1..svc_last.pre.nb_listeners :
        /\ svc_last.pre.listener_entries[k].listener = l
        /\ Matches(svc_last.pre.listener_entries[k].matcher,
                   FieldSetValue(16, APID_WIDTH, svc_last.apid))}

\* the callbacks that registered listener l during the dispatch
RegisteredMeanwhile(l) ==
    {i \in OuterCallbacks :
        LET reaction == svc_last.plan[svc_last.events[i].to]
        IN reaction.kind = "registerListener" /\ reaction.whom = l}

NotifiedTimes(l) == Cardinality({i \in OuterCallbacks : svc_last.events[i].to = l})

\* a callback of the last dispatch registered or unregistered a listener
TableChangedMeanwhile ==
    /\ DispatchedReacting
    /\ \E i \in OuterCallbacks :
          svc_last.plan[svc_last.events[i].to].kind
              \in {"registerListener", "unregisterListener"}

\* C23: when callbacks register or unregister listeners during a dispatch, every
\* entry that matched the packet when the dispatch started is notified once, and
\* no entry is notified twice.
C23_WalkNotCorrupted ==
    DispatchedReacting =>
        \A l \in Listeners :
            /\ NotifiedTimes(l) >= Cardinality(MatchingAtStart(l))
            /\ NotifiedTimes(l) <= Cardinality(MatchingAtStart(l))
                                     + Cardinality(RegisteredMeanwhile(l))

\* the transmit calls made by callbacks of the last dispatch
NestedTransmits == {i \in DOMAIN svc_last.events : svc_last.events[i].kind = "transmit"}

\* the packets handed to the sub-layer during the last call
Pushed == {i \in DOMAIN svc_last.events : svc_last.events[i].kind = "receiveFromUpperLayer"}

\* C24: a transmit made from a callback during a dispatch is refused: it notifies
\* nobody and changes no counter, so no two packets handed on during the call
\* carry the same sequence count on one APID.
C24_NestedTransmitRefused ==
    DispatchedReacting =>
        /\ \A i \in NestedTransmits :
              /\ svc_last.events[i + 1].kind = "returned"
              /\ svc_last.events[i + 1].contexes = svc_last.events[i].contexes
              /\ svc_last.events[i + 1].telemetry = svc_last.events[i].telemetry
        /\ \A i, j \in Pushed :
              (i # j /\ ApidOf(svc_last.events[i].buffer) = ApidOf(svc_last.events[j].buffer))
                  => CountOf(svc_last.events[i].buffer) # CountOf(svc_last.events[j].buffer)

(***************************************************************************)
(* Properties of the bits of a Field (SpecFieldBits).                      *)
(***************************************************************************)
\* C25: setBit(n, b) with n < W changes bit n of the value only: getBit(n) is b
\* afterwards and every other bit is as before, for every storage type up to 64
\* bits; setBit(n, b) with n >= W leaves the value as it was, and getBit(n) is
\* false for n >= W.
C25_SetBitChangesOneBit ==
    f_last.op = "setBit" =>
        LET W      == FieldAfter.WidthBits
            n      == f_last.arg.n
            before == FieldBefore.value
            after  == FieldAfter.value
        IN /\ n < W => /\ BitsGetBit(W, after, n) = f_last.arg.bit
                       /\ \A m \in 0..(W - 1) \ {n} :
                             BitsGetBit(W, after, m) = BitsGetBit(W, before, m)
           /\ n >= W => BitsGetValue(W, after) = BitsGetValue(W, before)
           /\ \A m \in W..64 : ~BitsGetBit(W, after, m)

(***************************************************************************)
(* Counters of the transfer service.                                       *)
(***************************************************************************)
\* C26: for every APID, next_count is the sum of the packets sent and received
\* on it, modulo 2^14: traffic in both directions advances the one counter.
C26_OneCounter ==
    \A a \in Apids :
        FieldGetValue(SEQUENCE_COUNT_WIDTH, contexes[a].next_count)
            = (contexes[a].tx_count + contexes[a].rx_count) % Pow2(SEQUENCE_COUNT_WIDTH)

\* an APID has carried a packet sent and a packet received
C26_BothDirections ==
    \E a \in Apids : contexes[a].tx_count > 0 /\ contexes[a].rx_count > 0

RECURSIVE SumOver(_, _)
SumOver(S, f) ==
    IF S = {} THEN 0
    ELSE LET a == CHOOSE x \in S : TRUE IN f[a] + SumOver(S \ {a}, f)

Invoked(last) == {last.events[i].to : i \in {j \in DOMAIN last.events :
                                                last.events[j].kind = "newSpacepacket"}}

\* C28: once unregisterListener(l) has returned, a transmit or a delivery made
\* before l is registered again does not invoke l, however many entries l had.
C28_UnregisteredStaysSilent ==
    [][(/\ svc_last.op = "unregisterListener"
        /\ svc_last'.op \in {"transmit", "receiveFromSubLayer"})
            => svc_last.listener \notin Invoked(svc_last')]_vars

(***************************************************************************)
(* The buffer a transmit hands on (Spec).                                  *)
(***************************************************************************)
\* the buffers the last call handed to listeners and to the sub-layer
HandedOn ==
    {svc_last.events[i].buffer : i \in DOMAIN svc_last.events}

\* C29: the buffer a successful transmit hands to the listeners and to the
\* sub-layer holds the packet and nothing else: its size is 6 plus the octets the
\* length field announces, and an SpExtractor over it is valid, also when the
\* builder's total_size is larger than the headers and the data written.
C29_BufferIsOnePacket ==
    Transmitted =>
        \A buffer \in HandedOn :
            /\ Len(buffer)
                 = PRIMARY_HEADER_SIZE + GetLength(svc_last.sp.primary_hdr.length)
            /\ ExtractorIsValid(SpExtractorNew(buffer, svc_last.sp.sec_size))

(***************************************************************************)
(* The memory a builder writes (SpecBuilder).                              *)
(***************************************************************************)
\* octets the user data may take in a builder of the given sizes
Capacity(total_size, sec_size) ==
    IF total_size > PRIMARY_HEADER_SIZE + sec_size
    THEN total_size - PRIMARY_HEADER_SIZE - sec_size ELSE 0

\* C30: for every total_size, also one below the size of the headers, the user
\* data takes at most max(0, total_size - 6 - sec_size) octets: puts through
\* data() and finalize write no octet outside the builder's buffer, and a put
\* that does not fit raises bad_bit.
C30_WritesStayInside ==
    sp_last.op # "none" =>
        /\ Len(packet.total_buffer) = sp_last.total_size
        /\ packet.beyond = sp_last.heap
        /\ packet.user_data.cur_bit_offset
             <= CHAR_BIT * Capacity(sp_last.total_size, packet.sec_size)
====
